---- MODULE Spec2Model ----
(***************************************************************************)
(* State-machine model of the pcdDecode class of pcdtojpeg (Kodak Photo CD *)
(* decoder): parseFile, postParse, the populate*Buffers family and the     *)
(* setters, translated from pcdDecode.cpp / pcdDecode.h.                   *)
(*                                                                         *)
(* Representation choices.                                                 *)
(*  - A plane buffer is a record [w, h, v]: its dimensions and the value   *)
(*    of its pixels.  The input files of the model hold uniform planes     *)
(*    (every pixel of a plane has the same value), so one value describes  *)
(*    the whole plane; the interpolators are applied to that value with    *)
(*    the arithmetic of the source.                                        *)
(*  - A primary file is described by its length in 2048-byte sectors, the  *)
(*    header fields parseFile inspects, and the outcome class of each      *)
(*    Huffman region (decodes, code length > 16, end of file, bad plane).  *)
(*  - malloc(n) succeeds iff n <= mem, the memory available to the call.   *)
(*  - A member the constructor does not initialise holds Indet until it    *)
(*    is first assigned.  Undefined behaviour (NULL dereference, division  *)
(*    by zero, out-of-bounds or indeterminate read) is a nondeterministic  *)
(*    choice between a crash and continuing with an arbitrary value.       *)
(***************************************************************************)
EXTENDS Integers, Sequences, FiniteSets, TLC

\* the null pointer; a buffer is a record, so no buffer equals it
NULL == << >>
\* the value of an integer member that has not been assigned yet; reading
\* it is undefined behaviour
Indet == -1
\* the content of a character array that has not been written yet
IndetString == "indeterminate"

\* enum PCDResolutions
kBase16 == 0
kBase4 == 1
kBase == 2
k4Base == 3
k16Base == 4
k64Base == 5
kMaxScenes == 6

\* enum PCDUpResMethodTags
kUpResNearest == 0
kUpResIterpolate == 1
kUpResLumaIterpolate == 2

\* enum PCDColorSpaces
kPCDRawColorSpace == 0
kPCDLinearCCIR709ColorSpace == 1
kPCDsRGBColorSpace == 2
kPCDYCCColorSpace == 3

\* enum PCDWhiteBalance
kPCDD65White == 0
kPCDD50White == 1

\* enum PCDOutputDataSize
pcdByteSize == 0
pcdInt16Size == 1
pcdFloatSize == 2

KSectorSize == 2048

\* Definition tables; C index s is element s+1
PCDLumaWidth == <<192, 384, 768, 1536, 3072, 6144>>
PCDLumaHeight == <<128, 256, 512, 1024, 2048, 4096>>
PCDChromaWidth == <<96, 192, 384, 384, 1536, 3072>>
PCDChromaHeight == <<64, 128, 256, 256, 1024, 2048>>
PCDChromaResFactor == <<1, 1, 1, 1, 1, 1>>

\* sizeof(struct PCDFile): 2048 + 1536 + 5 * 512
SizeofPCDFile == 6144
\* sizeof(huffTables): 3 tables of two 65536-byte arrays
SizeofHuffTables == 393216

\* conversion of an int to unsigned int (32 bits), kept as its two 16-bit
\* halves <<high, low>>: -1 becomes <<65535, 65535>> = 4294967295
ToUnsigned(x) == << (x \div 65536) % 65536, x % 65536 >>

\* u < v and the value of u, for unsigned ints u, v
ULess(u, v) == u[1] < v[1] \/ (u[1] = v[1] /\ u[2] < v[2])
UValue(u) == u[1] * 65536 + u[2]

pcdMin(x, y) == IF x < y THEN x ELSE y
pcdPin(low, x, high) == IF x < low THEN low ELSE IF x > high THEN high ELSE x

\* C integer division (truncates toward zero), b > 0
CDiv(a, b) == IF a >= 0 THEN a \div b ELSE -((-a) \div b)
\* arithmetic right shift of a signed int
Shr(a, n) == a \div (2 ^ n)
\* a byte read through an int8_t pointer
Signed8(b) == IF b >= 128 THEN b - 256 ELSE b

\* toLinearLight, part_000 lines 1017-1134; C index i is element i+1
toLinearLight ==
  <<
    0, 0, 0, 0, 0, 0, 0, 1, 1, 1, 1, 1,
    1, 2, 2, 2, 2, 2, 2, 3, 3, 3, 3, 3,
    3, 4, 4, 4, 4, 4, 4, 5, 5, 5, 5, 5,
    5, 5, 6, 6, 6, 6, 6, 6, 7, 7, 7, 7,
    7, 7, 8, 8, 8, 8, 8, 8, 9, 9, 9, 9,
    9, 9, 10, 10, 10, 10, 10, 10, 10, 11, 11, 11,
    11, 11, 11, 12, 12, 12, 12, 12, 12, 13, 13, 13,
    13, 13, 13, 14, 14, 14, 14, 14, 14, 15, 15, 15,
    15, 15, 15, 16, 16, 16, 16, 16, 16, 17, 17, 17,
    17, 17, 18, 18, 18, 18, 18, 19, 19, 19, 19, 19,
    20, 20, 20, 20, 20, 21, 21, 21, 21, 21, 22, 22,
    22, 22, 23, 23, 23, 23, 23, 24, 24, 24, 24, 25,
    25, 25, 25, 25, 26, 26, 26, 26, 27, 27, 27, 27,
    28, 28, 28, 28, 29, 29, 29, 29, 30, 30, 30, 30,
    31, 31, 31, 31, 32, 32, 32, 32, 33, 33, 33, 33,
    34, 34, 34, 35, 35, 35, 35, 36, 36, 36, 36, 37,
    37, 37, 38, 38, 38, 38, 39, 39, 39, 40, 40, 40,
    41, 41, 41, 41, 42, 42, 42, 43, 43, 43, 44, 44,
    44, 45, 45, 45, 45, 46, 46, 46, 47, 47, 47, 48,
    48, 48, 49, 49, 49, 50, 50, 50, 51, 51, 51, 52,
    52, 52, 53, 53, 53, 54, 54, 54, 55, 55, 56, 56,
    56, 57, 57, 57, 58, 58, 58, 59, 59, 60, 60, 60,
    61, 61, 61, 62, 62, 63, 63, 63, 64, 64, 64, 65,
    65, 66, 66, 66, 67, 67, 68, 68, 68, 69, 69, 70,
    70, 70, 71, 71, 72, 72, 72, 73, 73, 74, 74, 74,
    75, 75, 76, 76, 77, 77, 77, 78, 78, 79, 79, 79,
    80, 80, 81, 81, 82, 82, 83, 83, 83, 84, 84, 85,
    85, 86, 86, 87, 87, 87, 88, 88, 89, 89, 90, 90,
    91, 91, 92, 92, 93, 93, 93, 94, 94, 95, 95, 96,
    96, 97, 97, 98, 98, 99, 99, 100, 100, 101, 101, 102,
    102, 103, 103, 104, 104, 105, 105, 106, 106, 107, 107, 108,
    108, 109, 109, 110, 110, 111, 111, 112, 112, 113, 113, 114,
    114, 115, 115, 116, 117, 117, 118, 118, 119, 119, 120, 120,
    121, 121, 122, 122, 123, 124, 124, 125, 125, 126, 126, 127,
    127, 128, 129, 129, 130, 130, 131, 131, 132, 132, 133, 134,
    134, 135, 135, 136, 137, 137, 138, 138, 139, 139, 140, 141,
    141, 142, 142, 143, 144, 144, 145, 145, 146, 147, 147, 148,
    148, 149, 150, 150, 151, 151, 152, 153, 153, 154, 155, 155,
    156, 156, 157, 158, 158, 159, 160, 160, 161, 161, 162, 163,
    163, 164, 165, 165, 166, 167, 167, 168, 168, 169, 170, 170,
    171, 172, 172, 173, 174, 174, 175, 176, 176, 177, 178, 178,
    179, 180, 180, 181, 182, 182, 183, 184, 184, 185, 186, 187,
    187, 188, 189, 189, 190, 191, 191, 192, 193, 193, 194, 195,
    196, 196, 197, 198, 198, 199, 200, 201, 201, 202, 203, 203,
    204, 205, 206, 206, 207, 208, 209, 209, 210, 211, 211, 212,
    213, 214, 214, 215, 216, 217, 217, 218, 219, 220, 220, 221,
    222, 223, 223, 224, 225, 226, 226, 227, 228, 229, 230, 230,
    231, 232, 233, 233, 234, 235, 236, 237, 237, 238, 239, 240,
    240, 241, 242, 243, 244, 244, 245, 246, 247, 248, 248, 249,
    250, 251, 252, 253, 253, 254, 255, 256, 257, 257, 258, 259,
    260, 261, 262, 262, 263, 264, 265, 266, 267, 267, 268, 269,
    270, 271, 272, 272, 273, 274, 275, 276, 277, 278, 278, 279,
    280, 281, 282, 283, 284, 284, 285, 286, 287, 288, 289, 290,
    291, 291, 292, 293, 294, 295, 296, 297, 298, 298, 299, 300,
    301, 302, 303, 304, 305, 306, 307, 307, 308, 309, 310, 311,
    312, 313, 314, 315, 316, 317, 317, 318, 319, 320, 321, 322,
    323, 324, 325, 326, 327, 328, 329, 330, 331, 331, 332, 333,
    334, 335, 336, 337, 338, 339, 340, 341, 342, 343, 344, 345,
    346, 347, 348, 349, 350, 351, 352, 353, 354, 355, 355, 356,
    357, 358, 359, 360, 361, 362, 363, 364, 365, 366, 367, 368,
    369, 370, 371, 372, 373, 374, 375, 376, 377, 378, 379, 380,
    381, 382, 384, 385, 386, 387, 388, 389, 390, 391, 392, 393,
    394, 395, 396, 397, 398, 399, 400, 401, 402, 403, 404, 405,
    406, 407, 408, 410, 411, 412, 413, 414, 415, 416, 417, 418,
    419, 420, 421, 422, 423, 424, 426, 427, 428, 429, 430, 431,
    432, 433, 434, 435, 436, 438, 439, 440, 441, 442, 443, 444,
    445, 446, 447, 449, 450, 451, 452, 453, 454, 455, 456, 458,
    459, 460, 461, 462, 463, 464, 465, 467, 468, 469, 470, 471,
    472, 473, 475, 476, 477, 478, 479, 480, 482, 483, 484, 485,
    486, 487, 489, 490, 491, 492, 493, 494, 496, 497, 498, 499,
    500, 501, 503, 504, 505, 506, 507, 509, 510, 511, 512, 513,
    515, 516, 517, 518, 519, 521, 522, 523, 524, 525, 527, 528,
    529, 530, 532, 533, 534, 535, 536, 538, 539, 540, 541, 543,
    544, 545, 546, 548, 549, 550, 551, 553, 554, 555, 556, 558,
    559, 560, 561, 563, 564, 565, 566, 568, 569, 570, 571, 573,
    574, 575, 577, 578, 579, 580, 582, 583, 584, 585, 587, 588,
    589, 591, 592, 593, 595, 596, 597, 598, 600, 601, 602, 604,
    605, 606, 608, 609, 610, 612, 613, 614, 616, 617, 618, 620,
    621, 622, 624, 625, 626, 628, 629, 630, 632, 633, 634, 636,
    637, 638, 640, 641, 642, 644, 645, 646, 648, 649, 651, 652,
    653, 655, 656, 657, 659, 660, 661, 663, 664, 666, 667, 668,
    670, 671, 673, 674, 675, 677, 678, 680, 681, 682, 684, 685,
    687, 688, 689, 691, 692, 694, 695, 696, 698, 699, 701, 702,
    704, 705, 706, 708, 709, 711, 712, 714, 715, 716, 718, 719,
    721, 722, 724, 725, 727, 728, 729, 731, 732, 734, 735, 737,
    738, 740, 741, 743, 744, 746, 747, 749, 750, 751, 753, 754,
    756, 757, 759, 760, 762, 763, 765, 766, 768, 769, 771, 772,
    774, 775, 777, 778, 780, 781, 783, 784, 786, 787, 789, 790,
    792, 793, 795, 797, 798, 800, 801, 803, 804, 806, 807, 809,
    810, 812, 813, 815, 817, 818, 820, 821, 823, 824, 826, 827,
    829, 831, 832, 834, 835, 837, 838, 840, 841, 843, 845, 846,
    848, 849, 851, 853, 854, 856, 857, 859, 860, 862, 864, 865,
    867, 868, 870, 872, 873, 875, 876, 878, 880, 881, 883, 885,
    886, 888, 889, 891, 893, 894, 896, 898, 899, 901, 902, 904,
    906, 907, 909, 911, 912, 914, 916, 917, 919, 921, 922, 924,
    925, 927, 929, 930, 932, 934, 935, 937, 939, 940, 942, 944,
    945, 947, 949, 951, 952, 954, 956, 957, 959, 961, 962, 964,
    966, 967, 969, 971, 973, 974, 976, 978, 979, 981, 983, 985,
    986, 988, 990, 991, 993, 995, 997, 998, 1000, 1002, 1003, 1005,
    1007, 1009, 1010, 1012, 1014, 1016, 1017, 1019, 1021, 1023, 1024, 1026,
    1028, 1030, 1031, 1033, 1035, 1037, 1038, 1040, 1042, 1044, 1046, 1047,
    1049, 1051, 1053, 1054, 1056, 1058, 1060, 1062, 1063, 1065, 1067, 1069,
    1071, 1072, 1074, 1076, 1078, 1080, 1081, 1083, 1085, 1087, 1089, 1090,
    1092, 1094, 1096, 1098, 1099, 1101, 1103, 1105, 1107, 1109, 1110, 1112,
    1114, 1116, 1118, 1120, 1121, 1123, 1125, 1127, 1129, 1131, 1133, 1134,
    1136, 1138, 1140, 1142, 1144, 1146, 1147, 1149, 1151, 1153, 1155, 1157,
    1159, 1160, 1162, 1164, 1166, 1168, 1170, 1172, 1174, 1176, 1177, 1179,
    1181, 1183, 1185, 1187, 1189, 1191, 1193, 1195, 1196, 1198, 1200, 1202,
    1204, 1206, 1208, 1210, 1212, 1214, 1216, 1218, 1219, 1221, 1223, 1225,
    1227, 1229, 1231, 1233, 1235, 1237, 1239, 1241, 1243, 1245, 1247, 1249,
    1251, 1253, 1254, 1256, 1258, 1260, 1262, 1264, 1266, 1268, 1270, 1272,
    1274, 1276, 1278, 1280, 1282, 1284, 1286, 1288, 1290, 1292, 1294, 1296,
    1298, 1300, 1302, 1304, 1306, 1308, 1310, 1312, 1314, 1316, 1318, 1320,
    1322, 1324, 1326, 1328, 1330, 1332, 1334, 1336, 1338, 1340, 1342, 1344,
    1346, 1348, 1350, 1353, 1355, 1357, 1359, 1361, 1363, 1365, 1367, 1369,
    1371, 1373, 1375, 1377, 1379, 1381, 1383, 1385, 1387
  >>

\* CCIR709tosRGB, part_000 lines 1135-1252; C index i is element i+1
CCIR709tosRGB ==
  <<
    0, 12, 25, 38, 51, 64, 75, 85, 94, 103, 111, 118,
    125, 132, 139, 145, 151, 157, 163, 168, 173, 179, 184, 188,
    193, 198, 202, 207, 211, 215, 219, 224, 228, 231, 235, 239,
    243, 247, 250, 254, 257, 261, 264, 267, 271, 274, 277, 280,
    284, 287, 290, 293, 296, 299, 302, 305, 308, 310, 313, 316,
    319, 321, 324, 327, 329, 332, 335, 337, 340, 342, 345, 347,
    350, 352, 355, 357, 360, 362, 364, 367, 369, 371, 374, 376,
    378, 380, 383, 385, 387, 389, 392, 394, 396, 398, 400, 402,
    404, 406, 408, 410, 413, 415, 417, 419, 421, 423, 425, 427,
    428, 430, 432, 434, 436, 438, 440, 442, 444, 446, 447, 449,
    451, 453, 455, 457, 458, 460, 462, 464, 466, 467, 469, 471,
    473, 474, 476, 478, 479, 481, 483, 485, 486, 488, 490, 491,
    493, 494, 496, 498, 499, 501, 503, 504, 506, 507, 509, 511,
    512, 514, 515, 517, 518, 520, 521, 523, 525, 526, 528, 529,
    531, 532, 534, 535, 537, 538, 540, 541, 543, 544, 545, 547,
    548, 550, 551, 553, 554, 556, 557, 558, 560, 561, 563, 564,
    565, 567, 568, 570, 571, 572, 574, 575, 576, 578, 579, 580,
    582, 583, 584, 586, 587, 588, 590, 591, 592, 594, 595, 596,
    598, 599, 600, 602, 603, 604, 605, 607, 608, 609, 611, 612,
    613, 614, 616, 617, 618, 619, 621, 622, 623, 624, 626, 627,
    628, 629, 630, 632, 633, 634, 635, 636, 638, 639, 640, 641,
    642, 644, 645, 646, 647, 648, 650, 651, 652, 653, 654, 655,
    657, 658, 659, 660, 661, 662, 663, 665, 666, 667, 668, 669,
    670, 671, 672, 674, 675, 676, 677, 678, 679, 680, 681, 682,
    684, 685, 686, 687, 688, 689, 690, 691, 692, 693, 694, 696,
    697, 698, 699, 700, 701, 702, 703, 704, 705, 706, 707, 708,
    709, 710, 711, 713, 714, 715, 716, 717, 718, 719, 720, 721,
    722, 723, 724, 725, 726, 727, 728, 729, 730, 731, 732, 733,
    734, 735, 736, 737, 738, 739, 740, 741, 742, 743, 744, 745,
    746, 747, 748, 749, 750, 751, 752, 753, 754, 755, 756, 757,
    758, 759, 760, 761, 762, 762, 763, 764, 765, 766, 767, 768,
    769, 770, 771, 772, 773, 774, 775, 776, 777, 778, 779, 779,
    780, 781, 782, 783, 784, 785, 786, 787, 788, 789, 790, 791,
    791, 792, 793, 794, 795, 796, 797, 798, 799, 800, 801, 801,
    802, 803, 804, 805, 806, 807, 808, 809, 810, 810, 811, 812,
    813, 814, 815, 816, 817, 817, 818, 819, 820, 821, 822, 823,
    824, 824, 825, 826, 827, 828, 829, 830, 830, 831, 832, 833,
    834, 835, 836, 836, 837, 838, 839, 840, 841, 842, 842, 843,
    844, 845, 846, 847, 847, 848, 849, 850, 851, 852, 852, 853,
    854, 855, 856, 857, 857, 858, 859, 860, 861, 862, 862, 863,
    864, 865, 866, 866, 867, 868, 869, 870, 870, 871, 872, 873,
    874, 874, 875, 876, 877, 878, 879, 879, 880, 881, 882, 882,
    883, 884, 885, 886, 886, 887, 888, 889, 890, 890, 891, 892,
    893, 894, 894, 895, 896, 897, 897, 898, 899, 900, 901, 901,
    902, 903, 904, 904, 905, 906, 907, 907, 908, 909, 910, 911,
    911, 912, 913, 914, 914, 915, 916, 917, 917, 918, 919, 920,
    920, 921, 922, 923, 923, 924, 925, 926, 926, 927, 928, 929,
    929, 930, 931, 932, 932, 933, 934, 935, 935, 936, 937, 937,
    938, 939, 940, 940, 941, 942, 943, 943, 944, 945, 946, 946,
    947, 948, 948, 949, 950, 951, 951, 952, 953, 953, 954, 955,
    956, 956, 957, 958, 958, 959, 960, 961, 961, 962, 963, 963,
    964, 965, 966, 966, 967, 968, 968, 969, 970, 971, 971, 972,
    973, 973, 974, 975, 975, 976, 977, 978, 978, 979, 980, 980,
    981, 982, 982, 983, 984, 984, 985, 986, 987, 987, 988, 989,
    989, 990, 991, 991, 992, 993, 993, 994, 995, 995, 996, 997,
    997, 998, 999, 999, 1000, 1001, 1002, 1002, 1003, 1004, 1004, 1005,
    1006, 1006, 1007, 1008, 1008, 1009, 1010, 1010, 1011, 1012, 1012, 1013,
    1014, 1014, 1015, 1016, 1016, 1017, 1018, 1018, 1019, 1020, 1020, 1021,
    1021, 1022, 1023, 1023, 1024, 1025, 1025, 1026, 1027, 1027, 1028, 1029,
    1029, 1030, 1031, 1031, 1032, 1033, 1033, 1034, 1035, 1035, 1036, 1036,
    1037, 1038, 1038, 1039, 1040, 1040, 1041, 1042, 1042, 1043, 1044, 1044,
    1045, 1045, 1046, 1047, 1047, 1048, 1049, 1049, 1050, 1051, 1051, 1052,
    1052, 1053, 1054, 1054, 1055, 1056, 1056, 1057, 1057, 1058, 1059, 1059,
    1060, 1061, 1061, 1062, 1062, 1063, 1064, 1064, 1065, 1066, 1066, 1067,
    1067, 1068, 1069, 1069, 1070, 1071, 1071, 1072, 1072, 1073, 1074, 1074,
    1075, 1076, 1076, 1077, 1077, 1078, 1079, 1079, 1080, 1080, 1081, 1082,
    1082, 1083, 1083, 1084, 1085, 1085, 1086, 1087, 1087, 1088, 1088, 1089,
    1090, 1090, 1091, 1091, 1092, 1093, 1093, 1094, 1094, 1095, 1096, 1096,
    1097, 1097, 1098, 1099, 1099, 1100, 1100, 1101, 1102, 1102, 1103, 1103,
    1104, 1105, 1105, 1106, 1106, 1107, 1107, 1108, 1109, 1109, 1110, 1110,
    1111, 1112, 1112, 1113, 1113, 1114, 1115, 1115, 1116, 1116, 1117, 1117,
    1118, 1119, 1119, 1120, 1120, 1121, 1122, 1122, 1123, 1123, 1124, 1124,
    1125, 1126, 1126, 1127, 1127, 1128, 1129, 1129, 1130, 1130, 1131, 1131,
    1132, 1133, 1133, 1134, 1134, 1135, 1135, 1136, 1137, 1137, 1138, 1138,
    1139, 1139, 1140, 1141, 1141, 1142, 1142, 1143, 1143, 1144, 1145, 1145,
    1146, 1146, 1147, 1147, 1148, 1148, 1149, 1150, 1150, 1151, 1151, 1152,
    1152, 1153, 1154, 1154, 1155, 1155, 1156, 1156, 1157, 1157, 1158, 1159,
    1159, 1160, 1160, 1161, 1161, 1162, 1162, 1163, 1164, 1164, 1165, 1165,
    1166, 1166, 1167, 1167, 1168, 1169, 1169, 1170, 1170, 1171, 1171, 1172,
    1172, 1173, 1174, 1174, 1175, 1175, 1176, 1176, 1177, 1177, 1178, 1178,
    1179, 1180, 1180, 1181, 1181, 1182, 1182, 1183, 1183, 1184, 1184, 1185,
    1185, 1186, 1187, 1187, 1188, 1188, 1189, 1189, 1190, 1190, 1191, 1191,
    1192, 1193, 1193, 1194, 1194, 1195, 1195, 1196, 1196, 1197, 1197, 1198,
    1198, 1199, 1199, 1200, 1201, 1201, 1202, 1202, 1203, 1203, 1204, 1204,
    1205, 1205, 1206, 1206, 1207, 1207, 1208, 1208, 1209, 1210, 1210, 1211,
    1211, 1212, 1212, 1213, 1213, 1214, 1214, 1215, 1215, 1216, 1216, 1217,
    1217, 1218, 1218, 1219, 1219, 1220, 1221, 1221, 1222, 1222, 1223, 1223,
    1224, 1224, 1225, 1225, 1226, 1226, 1227, 1227, 1228, 1228, 1229, 1229,
    1230, 1230, 1231, 1231, 1232, 1232, 1233, 1233, 1234, 1234, 1235, 1236,
    1236, 1237, 1237, 1238, 1238, 1239, 1239, 1240, 1240, 1241, 1241, 1242,
    1242, 1243, 1243, 1244, 1244, 1245, 1245, 1246, 1246, 1247, 1247, 1248,
    1248, 1249, 1249, 1250, 1250, 1251, 1251, 1252, 1252, 1253, 1253, 1254,
    1254, 1255, 1255, 1256, 1256, 1257, 1257, 1258, 1258, 1259, 1259, 1260,
    1260, 1261, 1261, 1262, 1262, 1263, 1263, 1264, 1264, 1265, 1265, 1266,
    1266, 1267, 1267, 1268, 1268, 1269, 1269, 1270, 1270, 1271, 1271, 1272,
    1272, 1273, 1273, 1274, 1274, 1275, 1275, 1276, 1276, 1277, 1277, 1278,
    1278, 1279, 1279, 1280, 1280, 1281, 1281, 1282, 1282, 1282, 1283, 1283,
    1284, 1284, 1285, 1285, 1286, 1286, 1287, 1287, 1288, 1288, 1289, 1289,
    1290, 1290, 1291, 1291, 1292, 1292, 1293, 1293, 1294, 1294, 1295, 1295,
    1296, 1296, 1297, 1297, 1298, 1298, 1298, 1299, 1299, 1300, 1300, 1301,
    1301, 1302, 1302, 1303, 1303, 1304, 1304, 1305, 1305, 1306, 1306, 1307,
    1307, 1308, 1308, 1308, 1309, 1309, 1310, 1310, 1311, 1311, 1312, 1312,
    1313, 1313, 1314, 1314, 1315, 1315, 1316, 1316, 1317, 1317, 1317, 1318,
    1318, 1319, 1319, 1320, 1320, 1321, 1321, 1322, 1322, 1323, 1323, 1324,
    1324, 1325, 1325, 1325, 1326, 1326, 1327, 1327, 1328, 1328, 1329, 1329,
    1330, 1330, 1331, 1331, 1332, 1332, 1332, 1333, 1333, 1334, 1334, 1335,
    1335, 1336, 1336, 1337, 1337, 1338, 1338, 1338, 1339, 1339, 1340, 1340,
    1341, 1341, 1342, 1342, 1343, 1343, 1343, 1344, 1344, 1345, 1345, 1346,
    1346, 1347, 1347, 1348, 1348, 1349, 1349, 1349, 1350, 1350, 1351, 1351,
    1352, 1352, 1353, 1353, 1354, 1354, 1354, 1355, 1355, 1356, 1356, 1357,
    1357, 1358, 1358, 1359, 1359, 1359, 1360, 1360, 1361, 1361, 1362, 1362,
    1363, 1363, 1363, 1364, 1364, 1365, 1365, 1366, 1366, 1367, 1367, 1368,
    1368, 1368, 1369, 1369, 1370, 1370, 1371, 1371, 1372, 1372, 1372, 1373,
    1373, 1374, 1374, 1375, 1375, 1376, 1376, 1376, 1377, 1377, 1378, 1378,
    1379, 1379, 1380, 1380, 1380, 1381, 1381, 1382, 1382, 1383, 1383, 1384,
    1384, 1384, 1385, 1385, 1386, 1386, 1387, 1387, 1387
  >>

\* uint8Output, part_000 lines 1253-1370; C index i is element i+1
uint8Output ==
  <<
    0, 0, 0, 0, 0, 0, 1, 1, 1, 1, 1, 2,
    2, 2, 2, 2, 2, 3, 3, 3, 3, 3, 4, 4,
    4, 4, 4, 4, 5, 5, 5, 5, 5, 6, 6, 6,
    6, 6, 6, 7, 7, 7, 7, 7, 8, 8, 8, 8,
    8, 9, 9, 9, 9, 9, 9, 10, 10, 10, 10, 10,
    11, 11, 11, 11, 11, 11, 12, 12, 12, 12, 12, 13,
    13, 13, 13, 13, 13, 14, 14, 14, 14, 14, 15, 15,
    15, 15, 15, 15, 16, 16, 16, 16, 16, 17, 17, 17,
    17, 17, 18, 18, 18, 18, 18, 18, 19, 19, 19, 19,
    19, 20, 20, 20, 20, 20, 20, 21, 21, 21, 21, 21,
    22, 22, 22, 22, 22, 22, 23, 23, 23, 23, 23, 24,
    24, 24, 24, 24, 24, 25, 25, 25, 25, 25, 26, 26,
    26, 26, 26, 27, 27, 27, 27, 27, 27, 28, 28, 28,
    28, 28, 29, 29, 29, 29, 29, 29, 30, 30, 30, 30,
    30, 31, 31, 31, 31, 31, 31, 32, 32, 32, 32, 32,
    33, 33, 33, 33, 33, 33, 34, 34, 34, 34, 34, 35,
    35, 35, 35, 35, 36, 36, 36, 36, 36, 36, 37, 37,
    37, 37, 37, 38, 38, 38, 38, 38, 38, 39, 39, 39,
    39, 39, 40, 40, 40, 40, 40, 40, 41, 41, 41, 41,
    41, 42, 42, 42, 42, 42, 42, 43, 43, 43, 43, 43,
    44, 44, 44, 44, 44, 45, 45, 45, 45, 45, 45, 46,
    46, 46, 46, 46, 47, 47, 47, 47, 47, 47, 48, 48,
    48, 48, 48, 49, 49, 49, 49, 49, 49, 50, 50, 50,
    50, 50, 51, 51, 51, 51, 51, 51, 52, 52, 52, 52,
    52, 53, 53, 53, 53, 53, 54, 54, 54, 54, 54, 54,
    55, 55, 55, 55, 55, 56, 56, 56, 56, 56, 56, 57,
    57, 57, 57, 57, 58, 58, 58, 58, 58, 58, 59, 59,
    59, 59, 59, 60, 60, 60, 60, 60, 60, 61, 61, 61,
    61, 61, 62, 62, 62, 62, 62, 63, 63, 63, 63, 63,
    63, 64, 64, 64, 64, 64, 65, 65, 65, 65, 65, 65,
    66, 66, 66, 66, 66, 67, 67, 67, 67, 67, 67, 68,
    68, 68, 68, 68, 69, 69, 69, 69, 69, 69, 70, 70,
    70, 70, 70, 71, 71, 71, 71, 71, 72, 72, 72, 72,
    72, 72, 73, 73, 73, 73, 73, 74, 74, 74, 74, 74,
    74, 75, 75, 75, 75, 75, 76, 76, 76, 76, 76, 76,
    77, 77, 77, 77, 77, 78, 78, 78, 78, 78, 78, 79,
    79, 79, 79, 79, 80, 80, 80, 80, 80, 81, 81, 81,
    81, 81, 81, 82, 82, 82, 82, 82, 83, 83, 83, 83,
    83, 83, 84, 84, 84, 84, 84, 85, 85, 85, 85, 85,
    85, 86, 86, 86, 86, 86, 87, 87, 87, 87, 87, 88,
    88, 88, 88, 88, 88, 89, 89, 89, 89, 89, 90, 90,
    90, 90, 90, 90, 91, 91, 91, 91, 91, 92, 92, 92,
    92, 92, 92, 93, 93, 93, 93, 93, 94, 94, 94, 94,
    94, 94, 95, 95, 95, 95, 95, 96, 96, 96, 96, 96,
    97, 97, 97, 97, 97, 97, 98, 98, 98, 98, 98, 99,
    99, 99, 99, 99, 99, 100, 100, 100, 100, 100, 101, 101,
    101, 101, 101, 101, 102, 102, 102, 102, 102, 103, 103, 103,
    103, 103, 103, 104, 104, 104, 104, 104, 105, 105, 105, 105,
    105, 106, 106, 106, 106, 106, 106, 107, 107, 107, 107, 107,
    108, 108, 108, 108, 108, 108, 109, 109, 109, 109, 109, 110,
    110, 110, 110, 110, 110, 111, 111, 111, 111, 111, 112, 112,
    112, 112, 112, 112, 113, 113, 113, 113, 113, 114, 114, 114,
    114, 114, 115, 115, 115, 115, 115, 115, 116, 116, 116, 116,
    116, 117, 117, 117, 117, 117, 117, 118, 118, 118, 118, 118,
    119, 119, 119, 119, 119, 119, 120, 120, 120, 120, 120, 121,
    121, 121, 121, 121, 121, 122, 122, 122, 122, 122, 123, 123,
    123, 123, 123, 124, 124, 124, 124, 124, 124, 125, 125, 125,
    125, 125, 126, 126, 126, 126, 126, 126, 127, 127, 127, 127,
    127, 128, 128, 128, 128, 128, 128, 129, 129, 129, 129, 129,
    130, 130, 130, 130, 130, 130, 131, 131, 131, 131, 131, 132,
    132, 132, 132, 132, 133, 133, 133, 133, 133, 133, 134, 134,
    134, 134, 134, 135, 135, 135, 135, 135, 135, 136, 136, 136,
    136, 136, 137, 137, 137, 137, 137, 137, 138, 138, 138, 138,
    138, 139, 139, 139, 139, 139, 139, 140, 140, 140, 140, 140,
    141, 141, 141, 141, 141, 142, 142, 142, 142, 142, 142, 143,
    143, 143, 143, 143, 144, 144, 144, 144, 144, 144, 145, 145,
    145, 145, 145, 146, 146, 146, 146, 146, 146, 147, 147, 147,
    147, 147, 148, 148, 148, 148, 148, 148, 149, 149, 149, 149,
    149, 150, 150, 150, 150, 150, 151, 151, 151, 151, 151, 151,
    152, 152, 152, 152, 152, 153, 153, 153, 153, 153, 153, 154,
    154, 154, 154, 154, 155, 155, 155, 155, 155, 155, 156, 156,
    156, 156, 156, 157, 157, 157, 157, 157, 157, 158, 158, 158,
    158, 158, 159, 159, 159, 159, 159, 160, 160, 160, 160, 160,
    160, 161, 161, 161, 161, 161, 162, 162, 162, 162, 162, 162,
    163, 163, 163, 163, 163, 164, 164, 164, 164, 164, 164, 165,
    165, 165, 165, 165, 166, 166, 166, 166, 166, 166, 167, 167,
    167, 167, 167, 168, 168, 168, 168, 168, 169, 169, 169, 169,
    169, 169, 170, 170, 170, 170, 170, 171, 171, 171, 171, 171,
    171, 172, 172, 172, 172, 172, 173, 173, 173, 173, 173, 173,
    174, 174, 174, 174, 174, 175, 175, 175, 175, 175, 176, 176,
    176, 176, 176, 176, 177, 177, 177, 177, 177, 178, 178, 178,
    178, 178, 178, 179, 179, 179, 179, 179, 180, 180, 180, 180,
    180, 180, 181, 181, 181, 181, 181, 182, 182, 182, 182, 182,
    182, 183, 183, 183, 183, 183, 184, 184, 184, 184, 184, 185,
    185, 185, 185, 185, 185, 186, 186, 186, 186, 186, 187, 187,
    187, 187, 187, 187, 188, 188, 188, 188, 188, 189, 189, 189,
    189, 189, 189, 190, 190, 190, 190, 190, 191, 191, 191, 191,
    191, 191, 192, 192, 192, 192, 192, 193, 193, 193, 193, 193,
    194, 194, 194, 194, 194, 194, 195, 195, 195, 195, 195, 196,
    196, 196, 196, 196, 196, 197, 197, 197, 197, 197, 198, 198,
    198, 198, 198, 198, 199, 199, 199, 199, 199, 200, 200, 200,
    200, 200, 200, 201, 201, 201, 201, 201, 202, 202, 202, 202,
    202, 203, 203, 203, 203, 203, 203, 204, 204, 204, 204, 204,
    205, 205, 205, 205, 205, 205, 206, 206, 206, 206, 206, 207,
    207, 207, 207, 207, 207, 208, 208, 208, 208, 208, 209, 209,
    209, 209, 209, 209, 210, 210, 210, 210, 210, 211, 211, 211,
    211, 211, 212, 212, 212, 212, 212, 212, 213, 213, 213, 213,
    213, 214, 214, 214, 214, 214, 214, 215, 215, 215, 215, 215,
    216, 216, 216, 216, 216, 216, 217, 217, 217, 217, 217, 218,
    218, 218, 218, 218, 218, 219, 219, 219, 219, 219, 220, 220,
    220, 220, 220, 221, 221, 221, 221, 221, 221, 222, 222, 222,
    222, 222, 223, 223, 223, 223, 223, 223, 224, 224, 224, 224,
    224, 225, 225, 225, 225, 225, 225, 226, 226, 226, 226, 226,
    227, 227, 227, 227, 227, 227, 228, 228, 228, 228, 228, 229,
    229, 229, 229, 229, 230, 230, 230, 230, 230, 230, 231, 231,
    231, 231, 231, 232, 232, 232, 232, 232, 232, 233, 233, 233,
    233, 233, 234, 234, 234, 234, 234, 234, 235, 235, 235, 235,
    235, 236, 236, 236, 236, 236, 236, 237, 237, 237, 237, 237,
    238, 238, 238, 238, 238, 239, 239, 239, 239, 239, 239, 240,
    240, 240, 240, 240, 241, 241, 241, 241, 241, 241, 242, 242,
    242, 242, 242, 243, 243, 243, 243, 243, 243, 244, 244, 244,
    244, 244, 245, 245, 245, 245, 245, 245, 246, 246, 246, 246,
    246, 247, 247, 247, 247, 247, 248, 248, 248, 248, 248, 248,
    249, 249, 249, 249, 249, 250, 250, 250, 250, 250, 250, 251,
    251, 251, 251, 251, 252, 252, 252, 252, 252, 252, 253, 253,
    253, 253, 253, 254, 254, 254, 254, 254, 255
  >>

\* uint16Output, part_000 lines 1371-1488; C index i is element i+1
uint16Output ==
  <<
    0, 47, 94, 141, 188, 236, 283, 330, 377, 424, 472, 519,
    566, 613, 661, 708, 755, 802, 849, 897, 944, 991, 1038, 1085,
    1133, 1180, 1227, 1274, 1322, 1369, 1416, 1463, 1510, 1558, 1605, 1652,
    1699, 1746, 1794, 1841, 1888, 1935, 1983, 2030, 2077, 2124, 2171, 2219,
    2266, 2313, 2360, 2407, 2455, 2502, 2549, 2596, 2644, 2691, 2738, 2785,
    2832, 2880, 2927, 2974, 3021, 3069, 3116, 3163, 3210, 3257, 3305, 3352,
    3399, 3446, 3493, 3541, 3588, 3635, 3682, 3730, 3777, 3824, 3871, 3918,
    3966, 4013, 4060, 4107, 4154, 4202, 4249, 4296, 4343, 4391, 4438, 4485,
    4532, 4579, 4627, 4674, 4721, 4768, 4815, 4863, 4910, 4957, 5004, 5052,
    5099, 5146, 5193, 5240, 5288, 5335, 5382, 5429, 5476, 5524, 5571, 5618,
    5665, 5713, 5760, 5807, 5854, 5901, 5949, 5996, 6043, 6090, 6138, 6185,
    6232, 6279, 6326, 6374, 6421, 6468, 6515, 6562, 6610, 6657, 6704, 6751,
    6799, 6846, 6893, 6940, 6987, 7035, 7082, 7129, 7176, 7223, 7271, 7318,
    7365, 7412, 7460, 7507, 7554, 7601, 7648, 7696, 7743, 7790, 7837, 7884,
    7932, 7979, 8026, 8073, 8121, 8168, 8215, 8262, 8309, 8357, 8404, 8451,
    8498, 8545, 8593, 8640, 8687, 8734, 8782, 8829, 8876, 8923, 8970, 9018,
    9065, 9112, 9159, 9207, 9254, 9301, 9348, 9395, 9443, 9490, 9537, 9584,
    9631, 9679, 9726, 9773, 9820, 9868, 9915, 9962, 10009, 10056, 10104, 10151,
    10198, 10245, 10292, 10340, 10387, 10434, 10481, 10529, 10576, 10623, 10670, 10717,
    10765, 10812, 10859, 10906, 10953, 11001, 11048, 11095, 11142, 11190, 11237, 11284,
    11331, 11378, 11426, 11473, 11520, 11567, 11614, 11662, 11709, 11756, 11803, 11851,
    11898, 11945, 11992, 12039, 12087, 12134, 12181, 12228, 12276, 12323, 12370, 12417,
    12464, 12512, 12559, 12606, 12653, 12700, 12748, 12795, 12842, 12889, 12937, 12984,
    13031, 13078, 13125, 13173, 13220, 13267, 13314, 13361, 13409, 13456, 13503, 13550,
    13598, 13645, 13692, 13739, 13786, 13834, 13881, 13928, 13975, 14022, 14070, 14117,
    14164, 14211, 14259, 14306, 14353, 14400, 14447, 14495, 14542, 14589, 14636, 14683,
    14731, 14778, 14825, 14872, 14920, 14967, 15014, 15061, 15108, 15156, 15203, 15250,
    15297, 15345, 15392, 15439, 15486, 15533, 15581, 15628, 15675, 15722, 15769, 15817,
    15864, 15911, 15958, 16006, 16053, 16100, 16147, 16194, 16242, 16289, 16336, 16383,
    16430, 16478, 16525, 16572, 16619, 16667, 16714, 16761, 16808, 16855, 16903, 16950,
    16997, 17044, 17091, 17139, 17186, 17233, 17280, 17328, 17375, 17422, 17469, 17516,
    17564, 17611, 17658, 17705, 17752, 17800, 17847, 17894, 17941, 17989, 18036, 18083,
    18130, 18177, 18225, 18272, 18319, 18366, 18414, 18461, 18508, 18555, 18602, 18650,
    18697, 18744, 18791, 18838, 18886, 18933, 18980, 19027, 19075, 19122, 19169, 19216,
    19263, 19311, 19358, 19405, 19452, 19499, 19547, 19594, 19641, 19688, 19736, 19783,
    19830, 19877, 19924, 19972, 20019, 20066, 20113, 20160, 20208, 20255, 20302, 20349,
    20397, 20444, 20491, 20538, 20585, 20633, 20680, 20727, 20774, 20821, 20869, 20916,
    20963, 21010, 21058, 21105, 21152, 21199, 21246, 21294, 21341, 21388, 21435, 21483,
    21530, 21577, 21624, 21671, 21719, 21766, 21813, 21860, 21907, 21955, 22002, 22049,
    22096, 22144, 22191, 22238, 22285, 22332, 22380, 22427, 22474, 22521, 22568, 22616,
    22663, 22710, 22757, 22805, 22852, 22899, 22946, 22993, 23041, 23088, 23135, 23182,
    23229, 23277, 23324, 23371, 23418, 23466, 23513, 23560, 23607, 23654, 23702, 23749,
    23796, 23843, 23891, 23938, 23985, 24032, 24079, 24127, 24174, 24221, 24268, 24315,
    24363, 24410, 24457, 24504, 24552, 24599, 24646, 24693, 24740, 24788, 24835, 24882,
    24929, 24976, 25024, 25071, 25118, 25165, 25213, 25260, 25307, 25354, 25401, 25449,
    25496, 25543, 25590, 25637, 25685, 25732, 25779, 25826, 25874, 25921, 25968, 26015,
    26062, 26110, 26157, 26204, 26251, 26298, 26346, 26393, 26440, 26487, 26535, 26582,
    26629, 26676, 26723, 26771, 26818, 26865, 26912, 26960, 27007, 27054, 27101, 27148,
    27196, 27243, 27290, 27337, 27384, 27432, 27479, 27526, 27573, 27621, 27668, 27715,
    27762, 27809, 27857, 27904, 27951, 27998, 28045, 28093, 28140, 28187, 28234, 28282,
    28329, 28376, 28423, 28470, 28518, 28565, 28612, 28659, 28706, 28754, 28801, 28848,
    28895, 28943, 28990, 29037, 29084, 29131, 29179, 29226, 29273, 29320, 29367, 29415,
    29462, 29509, 29556, 29604, 29651, 29698, 29745, 29792, 29840, 29887, 29934, 29981,
    30029, 30076, 30123, 30170, 30217, 30265, 30312, 30359, 30406, 30453, 30501, 30548,
    30595, 30642, 30690, 30737, 30784, 30831, 30878, 30926, 30973, 31020, 31067, 31114,
    31162, 31209, 31256, 31303, 31351, 31398, 31445, 31492, 31539, 31587, 31634, 31681,
    31728, 31775, 31823, 31870, 31917, 31964, 32012, 32059, 32106, 32153, 32200, 32248,
    32295, 32342, 32389, 32436, 32484, 32531, 32578, 32625, 32673, 32720, 32767, 32814,
    32861, 32909, 32956, 33003, 33050, 33098, 33145, 33192, 33239, 33286, 33334, 33381,
    33428, 33475, 33522, 33570, 33617, 33664, 33711, 33759, 33806, 33853, 33900, 33947,
    33995, 34042, 34089, 34136, 34183, 34231, 34278, 34325, 34372, 34420, 34467, 34514,
    34561, 34608, 34656, 34703, 34750, 34797, 34844, 34892, 34939, 34986, 35033, 35081,
    35128, 35175, 35222, 35269, 35317, 35364, 35411, 35458, 35505, 35553, 35600, 35647,
    35694, 35742, 35789, 35836, 35883, 35930, 35978, 36025, 36072, 36119, 36167, 36214,
    36261, 36308, 36355, 36403, 36450, 36497, 36544, 36591, 36639, 36686, 36733, 36780,
    36828, 36875, 36922, 36969, 37016, 37064, 37111, 37158, 37205, 37252, 37300, 37347,
    37394, 37441, 37489, 37536, 37583, 37630, 37677, 37725, 37772, 37819, 37866, 37913,
    37961, 38008, 38055, 38102, 38150, 38197, 38244, 38291, 38338, 38386, 38433, 38480,
    38527, 38574, 38622, 38669, 38716, 38763, 38811, 38858, 38905, 38952, 38999, 39047,
    39094, 39141, 39188, 39236, 39283, 39330, 39377, 39424, 39472, 39519, 39566, 39613,
    39660, 39708, 39755, 39802, 39849, 39897, 39944, 39991, 40038, 40085, 40133, 40180,
    40227, 40274, 40321, 40369, 40416, 40463, 40510, 40558, 40605, 40652, 40699, 40746,
    40794, 40841, 40888, 40935, 40982, 41030, 41077, 41124, 41171, 41219, 41266, 41313,
    41360, 41407, 41455, 41502, 41549, 41596, 41643, 41691, 41738, 41785, 41832, 41880,
    41927, 41974, 42021, 42068, 42116, 42163, 42210, 42257, 42305, 42352, 42399, 42446,
    42493, 42541, 42588, 42635, 42682, 42729, 42777, 42824, 42871, 42918, 42966, 43013,
    43060, 43107, 43154, 43202, 43249, 43296, 43343, 43390, 43438, 43485, 43532, 43579,
    43627, 43674, 43721, 43768, 43815, 43863, 43910, 43957, 44004, 44051, 44099, 44146,
    44193, 44240, 44288, 44335, 44382, 44429, 44476, 44524, 44571, 44618, 44665, 44713,
    44760, 44807, 44854, 44901, 44949, 44996, 45043, 45090, 45137, 45185, 45232, 45279,
    45326, 45374, 45421, 45468, 45515, 45562, 45610, 45657, 45704, 45751, 45798, 45846,
    45893, 45940, 45987, 46035, 46082, 46129, 46176, 46223, 46271, 46318, 46365, 46412,
    46459, 46507, 46554, 46601, 46648, 46696, 46743, 46790, 46837, 46884, 46932, 46979,
    47026, 47073, 47120, 47168, 47215, 47262, 47309, 47357, 47404, 47451, 47498, 47545,
    47593, 47640, 47687, 47734, 47782, 47829, 47876, 47923, 47970, 48018, 48065, 48112,
    48159, 48206, 48254, 48301, 48348, 48395, 48443, 48490, 48537, 48584, 48631, 48679,
    48726, 48773, 48820, 48867, 48915, 48962, 49009, 49056, 49104, 49151, 49198, 49245,
    49292, 49340, 49387, 49434, 49481, 49528, 49576, 49623, 49670, 49717, 49765, 49812,
    49859, 49906, 49953, 50001, 50048, 50095, 50142, 50189, 50237, 50284, 50331, 50378,
    50426, 50473, 50520, 50567, 50614, 50662, 50709, 50756, 50803, 50851, 50898, 50945,
    50992, 51039, 51087, 51134, 51181, 51228, 51275, 51323, 51370, 51417, 51464, 51512,
    51559, 51606, 51653, 51700, 51748, 51795, 51842, 51889, 51936, 51984, 52031, 52078,
    52125, 52173, 52220, 52267, 52314, 52361, 52409, 52456, 52503, 52550, 52597, 52645,
    52692, 52739, 52786, 52834, 52881, 52928, 52975, 53022, 53070, 53117, 53164, 53211,
    53258, 53306, 53353, 53400, 53447, 53495, 53542, 53589, 53636, 53683, 53731, 53778,
    53825, 53872, 53920, 53967, 54014, 54061, 54108, 54156, 54203, 54250, 54297, 54344,
    54392, 54439, 54486, 54533, 54581, 54628, 54675, 54722, 54769, 54817, 54864, 54911,
    54958, 55005, 55053, 55100, 55147, 55194, 55242, 55289, 55336, 55383, 55430, 55478,
    55525, 55572, 55619, 55666, 55714, 55761, 55808, 55855, 55903, 55950, 55997, 56044,
    56091, 56139, 56186, 56233, 56280, 56327, 56375, 56422, 56469, 56516, 56564, 56611,
    56658, 56705, 56752, 56800, 56847, 56894, 56941, 56989, 57036, 57083, 57130, 57177,
    57225, 57272, 57319, 57366, 57413, 57461, 57508, 57555, 57602, 57650, 57697, 57744,
    57791, 57838, 57886, 57933, 57980, 58027, 58074, 58122, 58169, 58216, 58263, 58311,
    58358, 58405, 58452, 58499, 58547, 58594, 58641, 58688, 58735, 58783, 58830, 58877,
    58924, 58972, 59019, 59066, 59113, 59160, 59208, 59255, 59302, 59349, 59396, 59444,
    59491, 59538, 59585, 59633, 59680, 59727, 59774, 59821, 59869, 59916, 59963, 60010,
    60058, 60105, 60152, 60199, 60246, 60294, 60341, 60388, 60435, 60482, 60530, 60577,
    60624, 60671, 60719, 60766, 60813, 60860, 60907, 60955, 61002, 61049, 61096, 61143,
    61191, 61238, 61285, 61332, 61380, 61427, 61474, 61521, 61568, 61616, 61663, 61710,
    61757, 61804, 61852, 61899, 61946, 61993, 62041, 62088, 62135, 62182, 62229, 62277,
    62324, 62371, 62418, 62465, 62513, 62560, 62607, 62654, 62702, 62749, 62796, 62843,
    62890, 62938, 62985, 63032, 63079, 63127, 63174, 63221, 63268, 63315, 63363, 63410,
    63457, 63504, 63551, 63599, 63646, 63693, 63740, 63788, 63835, 63882, 63929, 63976,
    64024, 64071, 64118, 64165, 64212, 64260, 64307, 64354, 64401, 64449, 64496, 64543,
    64590, 64637, 64685, 64732, 64779, 64826, 64873, 64921, 64968, 65015, 65062, 65110,
    65157, 65204, 65251, 65298, 65346, 65393, 65440, 65487, 65535
  >>

\* floatOutput, part_000 lines 1489-1606 (each float literal scaled by 10^6); C index i is element i+1
floatOutput ==
  <<
    0, 720, 1441, 2161, 2882, 3602, 4323, 5043, 5764, 6484, 7205, 7925,
    8646, 9366, 10086, 10807, 11527, 12248, 12968, 13689, 14409, 15130, 15850, 16571,
    17291, 18012, 18732, 19452, 20173, 20893, 21614, 22334, 23055, 23775, 24496, 25216,
    25937, 26657, 27378, 28098, 28818, 29539, 30259, 30980, 31700, 32421, 33141, 33862,
    34582, 35303, 36023, 36744, 37464, 38184, 38905, 39625, 40346, 41066, 41787, 42507,
    43228, 43948, 44669, 45389, 46110, 46830, 47550, 48271, 48991, 49712, 50432, 51153,
    51873, 52594, 53314, 54035, 54755, 55476, 56196, 56916, 57637, 58357, 59078, 59798,
    60519, 61239, 61960, 62680, 63401, 64121, 64842, 65562, 66282, 67003, 67723, 68444,
    69164, 69885, 70605, 71326, 72046, 72767, 73487, 74207, 74928, 75648, 76369, 77089,
    77810, 78530, 79251, 79971, 80692, 81412, 82133, 82853, 83573, 84294, 85014, 85735,
    86455, 87176, 87896, 88617, 89337, 90058, 90778, 91499, 92219, 92939, 93660, 94380,
    95101, 95821, 96542, 97262, 97983, 98703, 99424, 100144, 100865, 101585, 102305, 103026,
    103746, 104467, 105187, 105908, 106628, 107349, 108069, 108790, 109510, 110231, 110951, 111671,
    112392, 113112, 113833, 114553, 115274, 115994, 116715, 117435, 118156, 118876, 119597, 120317,
    121037, 121758, 122478, 123199, 123919, 124640, 125360, 126081, 126801, 127522, 128242, 128963,
    129683, 130403, 131124, 131844, 132565, 133285, 134006, 134726, 135447, 136167, 136888, 137608,
    138329, 139049, 139769, 140490, 141210, 141931, 142651, 143372, 144092, 144813, 145533, 146254,
    146974, 147695, 148415, 149135, 149856, 150576, 151297, 152017, 152738, 153458, 154179, 154899,
    155620, 156340, 157061, 157781, 158501, 159222, 159942, 160663, 161383, 162104, 162824, 163545,
    164265, 164986, 165706, 166427, 167147, 167867, 168588, 169308, 170029, 170749, 171470, 172190,
    172911, 173631, 174352, 175072, 175793, 176513, 177233, 177954, 178674, 179395, 180115, 180836,
    181556, 182277, 182997, 183718, 184438, 185159, 185879, 186599, 187320, 188040, 188761, 189481,
    190202, 190922, 191643, 192363, 193084, 193804, 194524, 195245, 195965, 196686, 197406, 198127,
    198847, 199568, 200288, 201009, 201729, 202450, 203170, 203890, 204611, 205331, 206052, 206772,
    207493, 208213, 208934, 209654, 210375, 211095, 211816, 212536, 213256, 213977, 214697, 215418,
    216138, 216859, 217579, 218300, 219020, 219741, 220461, 221182, 221902, 222622, 223343, 224063,
    224784, 225504, 226225, 226945, 227666, 228386, 229107, 229827, 230548, 231268, 231988, 232709,
    233429, 234150, 234870, 235591, 236311, 237032, 237752, 238473, 239193, 239914, 240634, 241354,
    242075, 242795, 243516, 244236, 244957, 245677, 246398, 247118, 247839, 248559, 249280, 250000,
    250720, 251441, 252161, 252882, 253602, 254323, 255043, 255764, 256484, 257205, 257925, 258646,
    259366, 260086, 260807, 261527, 262248, 262968, 263689, 264409, 265130, 265850, 266571, 267291,
    268012, 268732, 269452, 270173, 270893, 271614, 272334, 273055, 273775, 274496, 275216, 275937,
    276657, 277378, 278098, 278818, 279539, 280259, 280980, 281700, 282421, 283141, 283862, 284582,
    285303, 286023, 286744, 287464, 288184, 288905, 289625, 290346, 291066, 291787, 292507, 293228,
    293948, 294669, 295389, 296109, 296830, 297550, 298271, 298991, 299712, 300432, 301153, 301873,
    302594, 303314, 304035, 304755, 305476, 306196, 306916, 307637, 308357, 309078, 309798, 310519,
    311239, 311960, 312680, 313401, 314121, 314842, 315562, 316282, 317003, 317723, 318444, 319164,
    319885, 320605, 321326, 322046, 322767, 323487, 324207, 324928, 325648, 326369, 327089, 327810,
    328530, 329251, 329971, 330692, 331412, 332133, 332853, 333573, 334294, 335014, 335735, 336455,
    337176, 337896, 338617, 339337, 340058, 340778, 341499, 342219, 342939, 343660, 344380, 345101,
    345821, 346542, 347262, 347983, 348703, 349424, 350144, 350865, 351585, 352305, 353026, 353746,
    354467, 355187, 355908, 356628, 357349, 358069, 358790, 359510, 360231, 360951, 361671, 362392,
    363112, 363833, 364553, 365274, 365994, 366715, 367435, 368156, 368876, 369597, 370317, 371037,
    371758, 372478, 373199, 373919, 374640, 375360, 376081, 376801, 377522, 378242, 378963, 379683,
    380403, 381124, 381844, 382565, 383285, 384006, 384726, 385447, 386167, 386888, 387608, 388329,
    389049, 389769, 390490, 391210, 391931, 392651, 393372, 394092, 394813, 395533, 396254, 396974,
    397695, 398415, 399135, 399856, 400576, 401297, 402017, 402738, 403458, 404179, 404899, 405620,
    406340, 407061, 407781, 408501, 409222, 409942, 410663, 411383, 412104, 412824, 413545, 414265,
    414986, 415706, 416427, 417147, 417867, 418588, 419308, 420029, 420749, 421470, 422190, 422911,
    423631, 424352, 425072, 425793, 426513, 427233, 427954, 428674, 429395, 430115, 430836, 431556,
    432277, 432997, 433718, 434438, 435158, 435879, 436599, 437320, 438040, 438761, 439481, 440202,
    440922, 441643, 442363, 443084, 443804, 444524, 445245, 445965, 446686, 447406, 448127, 448847,
    449568, 450288, 451009, 451729, 452450, 453170, 453891, 454611, 455331, 456052, 456772, 457493,
    458213, 458934, 459654, 460375, 461095, 461816, 462536, 463256, 463977, 464697, 465418, 466138,
    466859, 467579, 468300, 469020, 469741, 470461, 471182, 471902, 472622, 473343, 474063, 474784,
    475504, 476225, 476945, 477666, 478386, 479107, 479827, 480548, 481268, 481988, 482709, 483429,
    484150, 484870, 485591, 486311, 487032, 487752, 488473, 489193, 489914, 490634, 491354, 492075,
    492795, 493516, 494236, 494957, 495677, 496398, 497118, 497839, 498559, 499280, 500000, 500720,
    501441, 502161, 502882, 503602, 504323, 505043, 505764, 506484, 507205, 507925, 508646, 509366,
    510086, 510807, 511527, 512248, 512968, 513689, 514409, 515130, 515850, 516571, 517291, 518012,
    518732, 519452, 520173, 520893, 521614, 522334, 523055, 523775, 524496, 525216, 525937, 526657,
    527378, 528098, 528818, 529539, 530259, 530980, 531700, 532421, 533141, 533862, 534582, 535303,
    536023, 536744, 537464, 538184, 538905, 539625, 540346, 541066, 541787, 542507, 543228, 543948,
    544669, 545389, 546109, 546830, 547550, 548271, 548991, 549712, 550432, 551153, 551873, 552594,
    553314, 554035, 554755, 555476, 556196, 556916, 557637, 558357, 559078, 559798, 560519, 561239,
    561960, 562680, 563401, 564121, 564842, 565562, 566282, 567003, 567723, 568444, 569164, 569885,
    570605, 571326, 572046, 572767, 573487, 574207, 574928, 575648, 576369, 577089, 577810, 578530,
    579251, 579971, 580692, 581412, 582133, 582853, 583573, 584294, 585014, 585735, 586455, 587176,
    587896, 588617, 589337, 590058, 590778, 591499, 592219, 592939, 593660, 594380, 595101, 595821,
    596542, 597262, 597983, 598703, 599424, 600144, 600865, 601585, 602305, 603026, 603746, 604467,
    605187, 605908, 606628, 607349, 608069, 608790, 609510, 610231, 610951, 611671, 612392, 613112,
    613833, 614553, 615274, 615994, 616715, 617435, 618156, 618876, 619597, 620317, 621037, 621758,
    622478, 623199, 623919, 624640, 625360, 626081, 626801, 627522, 628242, 628963, 629683, 630403,
    631124, 631844, 632565, 633285, 634006, 634726, 635447, 636167, 636888, 637608, 638329, 639049,
    639769, 640490, 641210, 641931, 642651, 643372, 644092, 644813, 645533, 646254, 646974, 647695,
    648415, 649135, 649856, 650576, 651297, 652017, 652738, 653458, 654179, 654899, 655620, 656340,
    657061, 657781, 658501, 659222, 659942, 660663, 661383, 662104, 662824, 663545, 664265, 664986,
    665706, 666427, 667147, 667867, 668588, 669308, 670029, 670749, 671470, 672190, 672911, 673631,
    674352, 675072, 675793, 676513, 677233, 677954, 678674, 679395, 680115, 680836, 681556, 682277,
    682997, 683718, 684438, 685158, 685879, 686599, 687320, 688040, 688761, 689481, 690202, 690922,
    691643, 692363, 693084, 693804, 694524, 695245, 695965, 696686, 697406, 698127, 698847, 699568,
    700288, 701009, 701729, 702450, 703170, 703891, 704611, 705331, 706052, 706772, 707493, 708213,
    708934, 709654, 710375, 711095, 711816, 712536, 713256, 713977, 714697, 715418, 716138, 716859,
    717579, 718300, 719020, 719741, 720461, 721182, 721902, 722622, 723343, 724063, 724784, 725504,
    726225, 726945, 727666, 728386, 729107, 729827, 730548, 731268, 731988, 732709, 733429, 734150,
    734870, 735591, 736311, 737032, 737752, 738473, 739193, 739914, 740634, 741354, 742075, 742795,
    743516, 744236, 744957, 745677, 746398, 747118, 747839, 748559, 749280, 750000, 750720, 751441,
    752161, 752882, 753602, 754323, 755043, 755764, 756484, 757205, 757925, 758646, 759366, 760086,
    760807, 761527, 762248, 762968, 763689, 764409, 765130, 765850, 766571, 767291, 768012, 768732,
    769452, 770173, 770893, 771614, 772334, 773055, 773775, 774496, 775216, 775937, 776657, 777378,
    778098, 778818, 779539, 780259, 780980, 781700, 782421, 783141, 783862, 784582, 785303, 786023,
    786744, 787464, 788184, 788905, 789625, 790346, 791066, 791787, 792507, 793228, 793948, 794669,
    795389, 796109, 796830, 797550, 798271, 798991, 799712, 800432, 801153, 801873, 802594, 803314,
    804035, 804755, 805476, 806196, 806916, 807637, 808357, 809078, 809798, 810519, 811239, 811960,
    812680, 813401, 814121, 814842, 815562, 816282, 817003, 817723, 818444, 819164, 819885, 820605,
    821326, 822046, 822767, 823487, 824207, 824928, 825648, 826369, 827089, 827810, 828530, 829251,
    829971, 830692, 831412, 832133, 832853, 833573, 834294, 835014, 835735, 836455, 837176, 837896,
    838617, 839337, 840058, 840778, 841499, 842219, 842939, 843660, 844380, 845101, 845821, 846542,
    847262, 847983, 848703, 849424, 850144, 850865, 851585, 852305, 853026, 853746, 854467, 855187,
    855908, 856628, 857349, 858069, 858790, 859510, 860231, 860951, 861671, 862392, 863112, 863833,
    864553, 865274, 865994, 866715, 867435, 868156, 868876, 869597, 870317, 871037, 871758, 872478,
    873199, 873919, 874640, 875360, 876081, 876801, 877522, 878242, 878963, 879683, 880403, 881124,
    881844, 882565, 883285, 884006, 884726, 885447, 886167, 886888, 887608, 888329, 889049, 889769,
    890490, 891210, 891931, 892651, 893372, 894092, 894813, 895533, 896254, 896974, 897695, 898415,
    899135, 899856, 900576, 901297, 902017, 902738, 903458, 904179, 904899, 905620, 906340, 907061,
    907781, 908501, 909222, 909942, 910663, 911383, 912104, 912824, 913545, 914265, 914986, 915706,
    916427, 917147, 917867, 918588, 919308, 920029, 920749, 921470, 922190, 922911, 923631, 924352,
    925072, 925793, 926513, 927233, 927954, 928674, 929395, 930115, 930836, 931556, 932277, 932997,
    933718, 934438, 935158, 935879, 936599, 937320, 938040, 938761, 939481, 940202, 940922, 941643,
    942363, 943084, 943804, 944524, 945245, 945965, 946686, 947406, 948127, 948847, 949568, 950288,
    951009, 951729, 952450, 953170, 953891, 954611, 955331, 956052, 956772, 957493, 958213, 958934,
    959654, 960375, 961095, 961816, 962536, 963256, 963977, 964697, 965418, 966138, 966859, 967579,
    968300, 969020, 969741, 970461, 971182, 971902, 972622, 973343, 974063, 974784, 975504, 976225,
    976945, 977666, 978386, 979107, 979827, 980548, 981268, 981988, 982709, 983429, 984150, 984870,
    985591, 986311, 987032, 987752, 988473, 989193, 989914, 990634, 991354, 992075, 992795, 993516,
    994236, 994957, 995677, 996398, 997118, 997839, 998559, 999280, 1000000
  >>

(***************************************************************************)
(* Pixel arithmetic                                                        *)
(***************************************************************************)

\* variant of upResInterpolate with the diagonal pixel taken from two of
\* its neighbours
upResInterpolateTwoPixels(b00, b01, b10, b11, d, hasDeltas) ==
  LET add(s) == pcdPin(0, IF hasDeltas THEN s + Signed8(d) ELSE s, 255)
  IN  << add(b00),
         add(Shr(b00 + b01 + 1, 1)),
         add(Shr(b00 + b10 + 1, 1)),
         add(Shr(b00 + b11 + 1, 1)) >>

\* upResInterpolate on one base pixel whose right, lower and diagonal
\* neighbours are b01, b10, b11; d is the byte stored at each of the four
\* target positions before the call (the delta when hasDeltas).
\* Result: the four target pixels <<(2c,2r), (2c+1,2r), (2c,2r+1), (2c+1,2r+1)>>
upResInterpolate(b00, b01, b10, b11, d, hasDeltas) ==
  LET add(s) == pcdPin(0, IF hasDeltas THEN s + Signed8(d) ELSE s, 255)
  IN  << add(b00),
         add(Shr(b00 + b01 + 1, 1)),
         add(Shr(b00 + b10 + 1, 1)),
         add(Shr(b00 + b01 + b10 + b11 + 2, 2)) >>

\* the nearest-neighbour branch of upResBuffer: only a delta sum is clamped
upResNearest(b, d, hasDeltas) ==
  IF hasDeltas THEN pcdPin(0, b + Signed8(d), 255) ELSE b

\* upResBuffer(base, dest, luma, width, height, upResMethod, hasDeltas) on
\* uniform planes.  dest = NULL: nothing is done.  Otherwise the result is
\* the new content of dest.  The GPL build has no adaptive interpolator, so
\* every method >= kUpResIterpolate is the bilinear one.
upResBuffer(base, dest, width, height, upResMethod, hasDeltas) ==
  IF dest = NULL THEN NULL
  ELSE IF upResMethod >= kUpResIterpolate
       THEN LET px == upResInterpolate(base.v, base.v, base.v, base.v, dest.v, hasDeltas)
            IN  [w |-> width, h |-> height, v |-> px[4]]
       ELSE [w |-> width, h |-> height, v |-> upResNearest(base.v, dest.v, hasDeltas)]

\* upResBuffer reads base as a (width>>1) x (height>>1) plane
upResReadsInBounds(base, width, height) ==
  /\ base # NULL
  /\ base.w * base.h >= (width \div 2) * (height \div 2)

\* variant of the address computation with the quarter turns exchanged
destIndexTurnsSwapped(rotate, row, col, columns, rows, d) ==
  IF rotate = 3 THEN (row + (columns - 1 - col) * rows) * d
  ELSE IF rotate = 2 THEN (columns - 1 - col + (rows - 1 - row) * columns) * d
  ELSE IF rotate = 1 THEN (rows - 1 - row + col * rows) * d
  ELSE (col + row * columns) * d

\* convertToRGB: the index into the caller's buffers at which the pixel of
\* source row and column is stored; columns and rows are the source
\* dimensions, d the caller's pixel stride
destIndex(rotate, row, col, columns, rows, d) ==
  IF rotate = 1 THEN (row + (columns - 1 - col) * rows) * d
  ELSE IF rotate = 2 THEN (columns - 1 - col + (rows - 1 - row) * columns) * d
  ELSE IF rotate = 3 THEN (rows - 1 - row + col * rows) * d
  ELSE (col + row * columns) * d

\* variant of the conversion that does not pin the linear result
convertToRGBUnpinned(lp, c1p, c2p, colorSpace, whiteBalance) ==
  IF colorSpace = kPCDYCCColorSpace
  THEN << pcdPin(0, CDiv(lp.v * 1024, 188), 1388),
          pcdPin(0, CDiv(c1p.v * 1024, 188), 1388),
          pcdPin(0, CDiv(c2p.v * 1024, 188), 1388) >>
  ELSE
    LET Li  == lp.v * 5573
        C1i == IF c1p # NULL THEN (c1p.v - 156) * 9085 ELSE 0
        C2i == IF c2p # NULL THEN (c2p.v - 137) * 7461 ELSE 0
        r0  == pcdPin(0, Shr(Li + C2i, 10), 1388)
        g0  == pcdPin(0, Shr(Li, 10) - CDiv(C1i, 5278) - CDiv(C2i, 2012), 1388)
        b0  == pcdPin(0, Shr(Li + C1i, 10), 1388)
        lin == colorSpace = kPCDLinearCCIR709ColorSpace \/ colorSpace = kPCDsRGBColorSpace
        rt  == IF lin THEN toLinearLight[r0 + 1] ELSE r0
        gt  == IF lin THEN toLinearLight[g0 + 1] ELSE g0
        bt  == IF lin THEN toLinearLight[b0 + 1] ELSE b0
        d50 == lin /\ whiteBalance = kPCDD50White
        r1  == IF d50 THEN Shr(5930 * rt - 143 * gt + 393 * bt, 13) ELSE rt
        g1  == IF d50 THEN Shr(-176 * rt + 6268 * gt + 131 * bt, 13) ELSE gt
        b1  == IF d50 THEN Shr(76 * rt - 128 * gt + 8256 * bt, 13) ELSE bt
    IN  IF colorSpace = kPCDsRGBColorSpace
        THEN << CCIR709tosRGB[pcdPin(0, r1, 1388) + 1],
                CCIR709tosRGB[pcdPin(0, g1, 1388) + 1],
                CCIR709tosRGB[pcdPin(0, b1, 1388) + 1] >>
        ELSE << r1, g1, b1 >>

\* convertToRGB for one pixel of the planes lp, c1p, c2p: the three LUT
\* indices.  c1p / c2p may be NULL; in the YCC branch they are read
\* unconditionally (see convertDerefsNull).
convertToRGB(lp, c1p, c2p, colorSpace, whiteBalance) ==
  IF colorSpace = kPCDYCCColorSpace
  THEN << pcdPin(0, CDiv(lp.v * 1024, 188), 1388),
          pcdPin(0, CDiv(c1p.v * 1024, 188), 1388),
          pcdPin(0, CDiv(c2p.v * 1024, 188), 1388) >>
  ELSE
    LET Li  == lp.v * 5573
        C1i == IF c1p # NULL THEN (c1p.v - 156) * 9085 ELSE 0
        C2i == IF c2p # NULL THEN (c2p.v - 137) * 7461 ELSE 0
        r0  == pcdPin(0, Shr(Li + C2i, 10), 1388)
        g0  == pcdPin(0, Shr(Li, 10) - CDiv(C1i, 5278) - CDiv(C2i, 2012), 1388)
        b0  == pcdPin(0, Shr(Li + C1i, 10), 1388)
        lin == colorSpace = kPCDLinearCCIR709ColorSpace \/ colorSpace = kPCDsRGBColorSpace
        rt  == IF lin THEN toLinearLight[r0 + 1] ELSE r0
        gt  == IF lin THEN toLinearLight[g0 + 1] ELSE g0
        bt  == IF lin THEN toLinearLight[b0 + 1] ELSE b0
        d50 == lin /\ whiteBalance = kPCDD50White
        r1  == IF d50 THEN Shr(5930 * rt - 143 * gt + 393 * bt, 13) ELSE rt
        g1  == IF d50 THEN Shr(-176 * rt + 6268 * gt + 131 * bt, 13) ELSE gt
        b1  == IF d50 THEN Shr(76 * rt - 128 * gt + 8256 * bt, 13) ELSE bt
    IN  IF colorSpace = kPCDsRGBColorSpace
        THEN << CCIR709tosRGB[pcdPin(0, r1, 1388) + 1],
                CCIR709tosRGB[pcdPin(0, g1, 1388) + 1],
                CCIR709tosRGB[pcdPin(0, b1, 1388) + 1] >>
        ELSE << pcdPin(0, r1, 1388), pcdPin(0, g1, 1388), pcdPin(0, b1, 1388) >>

\* the YCC branch indexes rd->c1p and rd->c2p without a NULL test
convertDerefsNull(c1p, c2p, colorSpace) ==
  colorSpace = kPCDYCCColorSpace /\ (c1p = NULL \/ c2p = NULL)

\* the value stored for LUT index i in the requested output format
outputValue(outputSize, i) ==
  IF outputSize = pcdFloatSize THEN floatOutput[i + 1]
  ELSE IF outputSize = pcdInt16Size THEN uint16Output[i + 1]
  ELSE uint8Output[i + 1]

\* the alpha value stored in the requested output format
outputAlpha(outputSize) ==
  IF outputSize = pcdFloatSize THEN 1000000
  ELSE IF outputSize = pcdInt16Size THEN 65535
  ELSE 255

(***************************************************************************)
(* The decoder instance (class pcdDecode) and the observation of its last  *)
(* public call                                                             *)
(***************************************************************************)

VARIABLES
  upResMethod, monochrome, luma, chroma1, chroma2, deltas,
  imageRotate, imageResolution, colorSpace, whiteBalance,
  baseScene, sceneNumber, pcdFileHeader, errorString,
  lastCall,      \* the last public call: which one, its result and, for
                 \* parseFile, postParse and populate, what happened in it
  postParsed,    \* postParse has returned since the last parseFile
  monoTrace,     \* the setIsMonoChrome calls made since the flag was last known
                 \* clear (at construction, or at a parseFile with the flag
                 \* clear): "none", "true", "true,false" or "other"
  tempLive,      \* temporary buffers allocated by populateBuffers and not yet freed
  image,         \* one resolution step on a small plane: the planes,
                 \* the settings and the output raster (NULL when not studied)
  workers,       \* one parallel phase: the calling thread's position and
                 \* each band's thread (NULL when not studied)
  readBuf,       \* one ReadBuffer on a stream of bits (NULL when not studied)
  pixel,         \* one pixel in convertToRGB (NULL when not studied)
  huff,          \* one Huffman table being built by readHuffTable (NULL when
                 \* not studied)
  walk,          \* one pass of parseICFile over the pointer array of a 64Base
                 \* layer (NULL when not studied)
  heap           \* the plane and delta pointers of an instance and the buffers
                 \* that are allocated (NULL when not studied)

members == << upResMethod, monochrome, luma, chroma1, chroma2, deltas,
              imageRotate, imageResolution, colorSpace, whiteBalance,
              baseScene, sceneNumber, pcdFileHeader, errorString >>

vars == << upResMethod, monochrome, luma, chroma1, chroma2, deltas,
           imageRotate, imageResolution, colorSpace, whiteBalance,
           baseScene, sceneNumber, pcdFileHeader, errorString,
           lastCall, postParsed, monoTrace, tempLive,
           image, workers, readBuf, pixel, huff, walk, heap >>

\* the state of the whole-decoder model
decoder == << upResMethod, monochrome, luma, chroma1, chroma2, deltas,
              imageRotate, imageResolution, colorSpace, whiteBalance,
              baseScene, sceneNumber, pcdFileHeader, errorString,
              lastCall, postParsed, monoTrace, tempLive >>

\* the state of the component models
components == << image, workers, readBuf, pixel, huff, walk, heap >>

\* the instance as a record
self ==
  [ upResMethod |-> upResMethod, monochrome |-> monochrome,
    luma |-> luma, chroma1 |-> chroma1, chroma2 |-> chroma2, deltas |-> deltas,
    imageRotate |-> imageRotate, imageResolution |-> imageResolution,
    colorSpace |-> colorSpace, whiteBalance |-> whiteBalance,
    baseScene |-> baseScene, sceneNumber |-> sceneNumber,
    pcdFileHeader |-> pcdFileHeader, errorString |-> errorString ]

\* the instance after the call: assignment of every member
Assign(m) ==
  /\ upResMethod' = m.upResMethod
  /\ monochrome' = m.monochrome
  /\ luma' = m.luma
  /\ chroma1' = m.chroma1
  /\ chroma2' = m.chroma2
  /\ deltas' = m.deltas
  /\ imageRotate' = m.imageRotate
  /\ imageResolution' = m.imageResolution
  /\ colorSpace' = m.colorSpace
  /\ whiteBalance' = m.whiteBalance
  /\ baseScene' = m.baseScene
  /\ sceneNumber' = m.sceneNumber
  /\ pcdFileHeader' = m.pcdFileHeader
  /\ errorString' = m.errorString

\* deltas[3][3] with every slot NULL; C index [i][j] is element [i+1][j+1]
NoDeltas == << <<NULL, NULL, NULL>>, <<NULL, NULL, NULL>>, <<NULL, NULL, NULL>> >>

\* a buffer returned by malloc for a w x h plane, holding value v
Buffer(w, h, v) == [w |-> w, h |-> h, v |-> v]

\* pcdDecode::pcdDecode: the members the constructor assigns; the others
\* (imageRotate, imageResolution, baseScene, sceneNumber, errorString) are
\* left uninitialised
Constructed ==
  [ upResMethod |-> kUpResLumaIterpolate, monochrome |-> FALSE,
    luma |-> NULL, chroma1 |-> NULL, chroma2 |-> NULL, deltas |-> NoDeltas,
    imageRotate |-> Indet, imageResolution |-> Indet,
    colorSpace |-> kPCDRawColorSpace, whiteBalance |-> kPCDD65White,
    baseScene |-> Indet, sceneNumber |-> Indet,
    pcdFileHeader |-> NULL, errorString |-> IndetString ]

\* pcdDecode::pcdFreeAll
pcdFreeAll(m) ==
  [m EXCEPT !.luma = NULL, !.chroma1 = NULL, !.chroma2 = NULL,
            !.pcdFileHeader = NULL, !.deltas = NoDeltas]

(***************************************************************************)
(* Inputs of parseFile                                                     *)
(***************************************************************************)

\* Outcome class of a Huffman region (code table + delta stream) of a file:
\*   ok        every row of every plane is present and decodes
\*   hufflen   a table entry has a code length above 16
\*   eof0      the file ends before the first sequence is decoded
\*   eofmid    the file ends inside the stream, after luma sequences
\*   badplane  an invalid plane tag follows some luma sequences
StreamKinds == {"ok", "hufflen", "eof0", "eofmid", "badplane"}

\* a complete 16Base image pack with non-neutral chroma
GoodFile ==
  [ exists |-> TRUE, sectors |-> 5000, opaSig |-> FALSE, ipiSig |-> TRUE,
    interleaveRatio |-> 1, attributes |-> 8, base4Stop |-> 2000,
    y |-> 200, c1 |-> 100, c2 |-> 200, dv |-> 10,
    s4 |-> "ok", s16 |-> "ok" ]

\* parseFile's tables of component offsets, in sectors
ICDOffset(f) == <<4, 23, 96, 389, f.base4Stop + 14, 0>>
HCTOffset(f) == <<0, 0, 0, 388, f.base4Stop + 12, 0>>

\* the complete file cut after n sectors: a region that starts beyond the
\* end of the file cannot be decoded
Truncated(n) ==
  [ GoodFile EXCEPT !.sectors = n,
      !.s4  = IF n <= ICDOffset(GoodFile)[k4Base + 1] THEN "eof0" ELSE GoodFile.s4,
      !.s16 = IF n <= ICDOffset(GoodFile)[k16Base + 1] THEN "eof0" ELSE GoodFile.s16 ]

\* file lengths: shorter than the header, header only, through Base16,
\* through Base4, through Base, through 4Base, complete
SectorCounts == {2, 3, 22, 95, 384, 1000, 5000}

\* attribute bytes: (rotation, native class) = (0, Base), (1, 4Base),
\* (0, 16Base), (3, 16Base)
AttributeBytes == {0, 5, 8, 11}

\* files whose 4Base or 16Base region does not decode
BadStreamFiles ==
  { [GoodFile EXCEPT !.s4 = k] : k \in {"hufflen", "badplane"} }
  \cup { [GoodFile EXCEPT !.s16 = k] : k \in {"hufflen", "badplane"} }
  \cup { [GoodFile EXCEPT !.sectors = 1000, !.s4 = "eofmid", !.s16 = "eof0"],
         [GoodFile EXCEPT !.sectors = 3000, !.s16 = "eofmid"] }

\* files parseFile rejects, and files with other plane contents
OtherFiles ==
  { [GoodFile EXCEPT !.exists = FALSE],
    [GoodFile EXCEPT !.ipiSig = FALSE],
    [GoodFile EXCEPT !.ipiSig = FALSE, !.opaSig = TRUE],
    [GoodFile EXCEPT !.interleaveRatio = 2],
    [GoodFile EXCEPT !.y = 250, !.dv = 246],
    [GoodFile EXCEPT !.c1 = 156, !.c2 = 137, !.dv = 0] }

\* The 64Base companion set: the ipe_file argument and the outcome class
\* of the companion (IC) file and its extension files.
\*   path    "NULL" (no companion given), "short" (fewer than 10
\*           characters) or "ok"
\*   kind    noopen     the companion cannot be opened
\*           layers     layer count not in {1, 3}
\*           files      file count < 1, > 10 or < layer count
\*           hufflen    a code length above 16 in the companion's tables
\*           zeroLen    a layer descriptor with sequence length 0
\*           zeroDim    layer descriptors with width or height 0
\*           extNoOpen  an extension file cannot be opened
\*           ptrPastEOF a pointer offset past the end of its extension file
\*           eofmid     an extension file ends inside a sequence
\*           badplane   a sequence header with plane tag 6
\*           ok         everything decodes
\*   layers  the layer count of a well-formed companion
IpeKinds == {"noopen", "layers", "files", "hufflen", "zeroLen", "zeroDim",
             "extNoOpen", "ptrPastEOF", "eofmid", "badplane", "ok"}

NoIpe == [path |-> "NULL", kind |-> "noopen", layers |-> 3, dv |-> 0]

AllIpes ==
  { NoIpe, [path |-> "short", kind |-> "ok", layers |-> 3, dv |-> 3] }
  \cup { [path |-> "ok", kind |-> k, layers |-> 3, dv |-> 3] : k \in IpeKinds }
  \cup { [path |-> "ok", kind |-> "ok", layers |-> 1, dv |-> 3] }

\* memory available to a parseFile call, in bytes (malloc(n) succeeds iff
\* n bytes are still available): nothing; the header only; header and
\* planes up to Base16, Base4, Base; with the Huffman tables; with their
\* read buffer; with the 4Base delta; with the 16Base deltas; everything
MemSizes == {0, 6144, 43009, 153601, 595969, 989185, 991233, 2564097,
             12001281, 100000000}

\* what the build does at a division by zero
UBChoices == {"crash", "continue"}

(***************************************************************************)
(* Base (and lower) image reader                                           *)
(***************************************************************************)

\* bytes malloc'ed by one attempt of readBaseImage at level s
BaseNumBytes(s) == PCDLumaWidth[s + 1] * PCDLumaHeight[s + 1] + 1
BaseAllocBytes(s) == BaseNumBytes(s) + 2 * (BaseNumBytes(s) \div 4)

\* bytes one attempt reads from the file, starting at sector ICDOffset[s]
BaseReadBytes(s) ==
  (PCDLumaWidth[s + 1] * 2 + PCDChromaWidth[s + 1] * 2) * PCDChromaHeight[s + 1]

\* one attempt succeeds: the three mallocs succeed and every row is read
BaseAttemptOK(f, s, avail) ==
  /\ BaseAllocBytes(s) <= avail
  /\ f.sectors * KSectorSize >= KSectorSize * ICDOffset(f)[s + 1] + BaseReadBytes(s)

\* the while loop of readBaseImage: the int it returns and the planes
RECURSIVE readBaseLoop(_, _, _)
readBaseLoop(f, s, avail) ==
  IF ~(s >= kBase16)
  THEN [scene |-> s, luma |-> NULL, chroma1 |-> NULL, chroma2 |-> NULL]
  ELSE IF BaseAttemptOK(f, s, avail)
       THEN [ scene |-> s,
              luma |-> Buffer(PCDLumaWidth[s + 1], PCDLumaHeight[s + 1], f.y),
              chroma1 |-> Buffer(PCDChromaWidth[s + 1], PCDChromaHeight[s + 1], f.c1),
              chroma2 |-> Buffer(PCDChromaWidth[s + 1], PCDChromaHeight[s + 1], f.c2) ]
       ELSE readBaseLoop(f, s - 1, avail)

\* variant that gives up after the first level it tries
readBaseImageFirstOnly(f, scene, avail) ==
  LET s == IF scene > kBase THEN kBase ELSE scene
  IN  IF BaseAttemptOK(f, s, avail) THEN readBaseLoop(f, s, avail)
      ELSE [scene |-> -1, luma |-> NULL, chroma1 |-> NULL, chroma2 |-> NULL]

\* readBaseImage: the loop starts at min(sceneNumber, kBase)
readBaseImage(f, scene, avail) ==
  readBaseLoop(f, IF scene > kBase THEN kBase ELSE scene, avail)

(***************************************************************************)
(* 64Base: parseICFile                                                     *)
(***************************************************************************)

\* element [i+1] of deltas replaced
SetDeltaRow(m, i, row) == [m EXCEPT !.deltas[i + 1] = row]

\* the companion file of the model is one sector long:
\* fileSize = ftell / KSectorSize + 1 sectors are malloc'ed
IcBufferBytes == 2 * KSectorSize

\* bytes malloc'ed by readAllHuffmanTables for its read buffer
HuffBufferBytes(numTables) == KSectorSize * (IF numTables = 1 THEN 1 ELSE 2)

\* pcdDecode::parseICFile.  Result: the instance, retVal, and whether the
\* call crashed.  Every throw is a string literal (const char *), which
\* catch (char *) does not match, so catch (...) handles it; errorString is
\* an array, so the test errorString == NULL in the handlers is false and
\* the handlers leave the string as it is.
parseICFile(m, ipe, avail, ub) ==
  LET \* return false; icOpen: the companion file is open and is not closed
      fail(msg, icOpen) == [ m |-> [m EXCEPT !.errorString = msg], ok |-> FALSE,
                             crash |-> FALSE, icOpen |-> icOpen ]
      \* the handlers and the cleanup behind them, which closes ic and thisFile
      caught    == [m |-> SetDeltaRow(m, k64Base - k4Base, <<NULL, NULL, NULL>>),
                    ok |-> FALSE, crash |-> FALSE, icOpen |-> FALSE]
      crashed   == [m |-> m, ok |-> FALSE, crash |-> TRUE, icOpen |-> FALSE]
      layersRead == IF ipe.kind = "layers" THEN 2 ELSE ipe.layers
      ipeLayers == IF m.monochrome THEN 1 ELSE layersRead
      a1    == avail - SizeofHuffTables
      a2    == a1 - IcBufferBytes
      ySize == PCDLumaWidth[k64Base + 1] * PCDLumaHeight[k64Base + 1]
      cSize == PCDChromaWidth[k64Base + 1] * PCDChromaHeight[k64Base + 1]
      \* value of the delta planes after decoding: memset to 0, then the
      \* decoded sequences; no sequence is decoded when numSequences is 0
      dval  == IF ipe.kind = "ok" THEN ipe.dv ELSE 0
      yBuf  == IF ySize <= a2 THEN Buffer(PCDLumaWidth[k64Base + 1], PCDLumaHeight[k64Base + 1], dval) ELSE NULL
      a3    == IF yBuf # NULL THEN a2 - ySize ELSE a2
      c1Buf == IF cSize <= a3 THEN Buffer(PCDChromaWidth[k64Base + 1], PCDChromaHeight[k64Base + 1], dval) ELSE NULL
      a4    == IF c1Buf # NULL THEN a3 - cSize ELSE a3
      c2Buf == IF cSize <= a4 THEN Buffer(PCDChromaWidth[k64Base + 1], PCDChromaHeight[k64Base + 1], dval) ELSE NULL
      row   == IF ipeLayers = 3 THEN <<yBuf, c1Buf, c2Buf>> ELSE <<yBuf, NULL, NULL>>
      done  == [ m |-> SetDeltaRow(m, k64Base - k4Base, row), ok |-> TRUE,
                 crash |-> FALSE, icOpen |-> FALSE ]
  IN
  IF ipe.path = "NULL" THEN crashed                \* strlen(NULL)
  ELSE IF ipe.path = "short" THEN fail("IPE filename too short to be valid", FALSE)
  ELSE IF ipe.kind = "noopen" THEN fail("Could not open 64Base IPE file", FALSE)
  ELSE IF SizeofHuffTables > avail THEN fail("Could not allocate huffman tables", TRUE)
  ELSE IF IcBufferBytes > a1 THEN caught           \* "Memory allocation error"
  ELSE IF ~(layersRead = 1 \/ layersRead = 3) THEN caught
  ELSE IF ipe.kind = "files" THEN caught
  ELSE IF HuffBufferBytes(ipeLayers) > a2 THEN caught
  ELSE IF ipe.kind = "hufflen" THEN caught
  ELSE IF yBuf = NULL THEN crashed                 \* memset(NULL, ...)
  ELSE IF ipeLayers = 3 /\ (c1Buf = NULL \/ c2Buf = NULL) THEN crashed
  ELSE IF ipe.kind = "zeroLen"
       THEN (IF ub = "crash" THEN crashed ELSE done)   \* width * height / 0
  ELSE IF ipe.kind = "zeroDim" THEN done           \* numSequences = 0
  ELSE IF ipe.kind \in {"extNoOpen", "ptrPastEOF", "eofmid", "badplane"} THEN caught
  ELSE done

(***************************************************************************)
(* parseFile                                                               *)
(***************************************************************************)

\* What decoding one Huffman region does, given its outcome class and
\* the luma delta buffer: readAllHuffmanTables throws before the delta
\* buffers are malloc'ed; initReadBuffer throws when no sector can be
\* read; PCDDecodeHuffman writes the luma rows through data[0] without a
\* NULL test; chroma rows are written only if their buffer is not NULL.
DecodeOutcome(kind, tablesBytes, availAtTables, yBuf) ==
  IF tablesBytes > availAtTables \/ kind = "hufflen" THEN "throw"
  ELSE IF kind = "eof0" THEN "throw"
  ELSE IF yBuf = NULL THEN "crash"
  ELSE IF kind \in {"eofmid", "badplane"} THEN "throw"
  ELSE "ok"

\* the throw comes from readAllHuffmanTables, before the delta buffers of
\* the level are malloc'ed
ThrowsBeforeMalloc(kind, tablesBytes, availAtTables) ==
  tablesBytes > availAtTables \/ kind = "hufflen"

\* variant of the inner handler that sets the level but leaves the
\* 16Base delta slots as they are
FallBackTo4BaseKeepingBuffers(m) == [m EXCEPT !.sceneNumber = k4Base]

\* catch (...) of the inner try and the block after it: sceneNumber is
\* k4Base, so the three 16Base delta slots are freed and set to NULL
FallBackTo4Base(m) ==
  SetDeltaRow([m EXCEPT !.sceneNumber = k4Base], k16Base - k4Base, <<NULL, NULL, NULL>>)

\* catch (...) of the outer try and the block after it: sceneNumber is
\* kBase, so deltas[0][0] is freed and set to NULL
FallBackToBase(m) ==
  [ [m EXCEPT !.sceneNumber = kBase] EXCEPT !.deltas[1][1] = NULL ]

\* variant without the limit to the native class
LimitSceneUnlimited(sNum, imageRes) == sNum

\* "Limit the resolution to what we have available"
LimitScene(sNum, imageRes) ==
  IF imageRes < k16Base THEN pcdMin(sNum, imageRes) ELSE sNum

\* the 16Base block of parseFile (inner try), entered with the 4Base
\* deltas decoded, and the 64Base call it contains
Parse16Base(m, f, ipe, avail, ub) ==
  LET numTables == IF m.monochrome THEN 1 ELSE 3
      ySize == PCDLumaWidth[k16Base + 1] * PCDLumaHeight[k16Base + 1]
      cSize == PCDChromaWidth[k16Base + 1] * PCDChromaHeight[k16Base + 1]
      yBuf  == IF ySize <= avail THEN Buffer(PCDLumaWidth[k16Base + 1], PCDLumaHeight[k16Base + 1], f.dv) ELSE NULL
      a1    == IF yBuf # NULL THEN avail - ySize ELSE avail
      c1Buf == IF ~m.monochrome /\ cSize <= a1
               THEN Buffer(PCDChromaWidth[k16Base + 1], PCDChromaHeight[k16Base + 1], f.dv) ELSE NULL
      a2    == IF c1Buf # NULL THEN a1 - cSize ELSE a1
      c2Buf == IF ~m.monochrome /\ cSize <= a2
               THEN Buffer(PCDChromaWidth[k16Base + 1], PCDChromaHeight[k16Base + 1], f.dv) ELSE NULL
      a3    == IF c2Buf # NULL THEN a2 - cSize ELSE a2
      outcome == DecodeOutcome(f.s16, HuffBufferBytes(numTables), avail, yBuf)
      m16   == SetDeltaRow(m, k16Base - k4Base, <<yBuf, c1Buf, c2Buf>>)
      ic    == parseICFile(m16, ipe, a3, ub)
  IN
  IF outcome = "crash"
  THEN [m |-> m, crash |-> TRUE, failed |-> {}, icCalled |-> FALSE, icOpen |-> FALSE]
  ELSE IF outcome = "throw"
       THEN \* catch (...): sceneNumber = k4Base; then the three slots are freed
            [ m |-> FallBackTo4Base(
                        IF ThrowsBeforeMalloc(f.s16, HuffBufferBytes(numTables), avail)
                        THEN m ELSE m16),
              crash |-> FALSE, failed |-> {k16Base}, icCalled |-> FALSE,
              icOpen |-> FALSE ]
  ELSE IF m.sceneNumber >= k64Base
       THEN IF ic.crash
            THEN [ m |-> m, crash |-> TRUE, failed |-> {}, icCalled |-> TRUE,
                   icOpen |-> FALSE ]
            ELSE IF ~ic.ok
                 THEN [ m |-> [ic.m EXCEPT !.sceneNumber = k16Base],
                        crash |-> FALSE, failed |-> {k64Base}, icCalled |-> TRUE,
                        icOpen |-> ic.icOpen ]
                 ELSE [ m |-> ic.m, crash |-> FALSE, failed |-> {}, icCalled |-> TRUE,
                        icOpen |-> ic.icOpen ]
  ELSE [m |-> m16, crash |-> FALSE, failed |-> {}, icCalled |-> FALSE, icOpen |-> FALSE]

\* the block  if (sceneNumber >= k4Base) { try { ... } }  of parseFile
Parse4Base(m, f, ipe, avail, ub) ==
  LET a0    == avail - SizeofHuffTables
      ySize == PCDLumaWidth[k4Base + 1] * PCDLumaHeight[k4Base + 1]
      yBuf  == IF ySize <= a0 THEN Buffer(PCDLumaWidth[k4Base + 1], PCDLumaHeight[k4Base + 1], f.dv) ELSE NULL
      a1    == IF yBuf # NULL THEN a0 - ySize ELSE a0
      outcome == DecodeOutcome(f.s4, HuffBufferBytes(1), a0, yBuf)
      m4    == SetDeltaRow(m, k4Base - k4Base, <<yBuf, NULL, NULL>>)
  IN
  IF SizeofHuffTables > avail
  THEN [ m |-> [m EXCEPT !.errorString = "Could not allocate huffman tables"],
         crash |-> FALSE, failed |-> {}, icCalled |-> FALSE, hTablesNull |-> TRUE,
         icOpen |-> FALSE ]
  ELSE IF outcome = "crash"
       THEN [ m |-> m, crash |-> TRUE, failed |-> {}, icCalled |-> FALSE,
              hTablesNull |-> FALSE, icOpen |-> FALSE ]
  ELSE IF outcome = "throw"
       THEN \* catch (...): sceneNumber = kBase; then deltas[0][0] is freed
            [ m |-> FallBackToBase(
                        IF ThrowsBeforeMalloc(f.s4, HuffBufferBytes(1), a0) THEN m ELSE m4),
              crash |-> FALSE, failed |-> {k4Base}, icCalled |-> FALSE, hTablesNull |-> FALSE,
              icOpen |-> FALSE ]
  ELSE IF m.sceneNumber >= k16Base
       THEN LET r == Parse16Base(m4, f, ipe, a1, ub)
            IN  [ m |-> r.m, crash |-> r.crash, failed |-> r.failed,
                  icCalled |-> r.icCalled, hTablesNull |-> FALSE, icOpen |-> r.icOpen ]
  ELSE [ m |-> m4, crash |-> FALSE, failed |-> {}, icCalled |-> FALSE,
         hTablesNull |-> FALSE, icOpen |-> FALSE ]

\* the highest level in kBase16 .. min(first, kBase) whose planes can be
\* allocated and read in full, -1 if there is none (observation only)
BestReadable(f, first, avail) ==
  LET top == IF first > kBase THEN kBase ELSE first
      ok  == { s \in kBase16 .. top : BaseAttemptOK(f, s, avail) }
  IN  IF ok = {} THEN -1 ELSE CHOOSE s \in ok : \A t \in ok : t <= s

\* the primary file is open when parseFile returns false: every return
\* false behind the fopen leaves without fclose(fp)
fpLeftOpen(cause) == cause \in {"hdralloc", "short", "sig", "audio", "nobase"}

\* the files the decoder has opened and not closed
openFiles(fp, ic) == (IF fp THEN {"fp"} ELSE {}) \cup (IF ic THEN {"ic"} ELSE {})

\* the observation of a parseFile call that did not reach the base reader
EarlyReturn(f, sNum, cause) ==
  [ op |-> "parseFile", file |-> f, sNum |-> sNum, cause |-> cause, native |-> NULL,
    best |-> NULL, failed |-> {}, icCalled |-> FALSE, ipe |-> NoIpe,
    hTablesNull |-> FALSE, open |-> openFiles(fpLeftOpen(cause), FALSE) ]

\* pcdDecode::parseFile(in_file, ipe_file, sNum).  Result: the instance
\* after the call, the value returned ("crash" if the call does not
\* return) and the observation of the call.
parseFile(m0, f, ipe, sNum, mem, ub) ==
  LET m1 == [pcdFreeAll(m0) EXCEPT !.errorString = ""]
      failWith(msg, cause) ==
        [ m |-> [m1 EXCEPT !.errorString = msg], ret |-> "false",
          obs |-> EarlyReturn(f, sNum, cause) ]
      m2 == [ m1 EXCEPT !.pcdFileHeader = [size |-> SizeofPCDFile],
                        !.imageRotate = f.attributes % 4,
                        !.imageResolution = ((f.attributes \div 4) % 4) + kBase ]
      avail0 == mem - SizeofPCDFile
      scene0 == LimitScene(sNum, m2.imageResolution)
      rb == readBaseImage(f, scene0, avail0)
      \* baseScene is an unsigned int: -1 is stored as 4294967295
      m3 == [ m2 EXCEPT !.sceneNumber = scene0, !.baseScene = ToUnsigned(rb.scene),
                        !.luma = rb.luma, !.chroma1 = rb.chroma1, !.chroma2 = rb.chroma2 ]
      m4 == IF ULess(m3.baseScene, ToUnsigned(kBase))
            THEN [m3 EXCEPT !.sceneNumber = UValue(m3.baseScene)] ELSE m3
      avail1 == IF rb.luma # NULL THEN avail0 - BaseAllocBytes(rb.scene) ELSE avail0
      obs0 == [ op |-> "parseFile", file |-> f, sNum |-> sNum, cause |-> "none",
                native |-> m2.imageResolution,
                best |-> BestReadable(f, sNum, avail0),
                failed |-> {}, icCalled |-> FALSE, ipe |-> NoIpe,
                hTablesNull |-> FALSE, open |-> {} ]
      d == Parse4Base(m4, f, ipe, avail1, ub)
  IN
  IF ~f.exists
  THEN failWith("Could not open PCD file - may be a file permissions problem", "open")
  ELSE IF SizeofPCDFile > mem
  THEN [m |-> m1, ret |-> "false", obs |-> EarlyReturn(f, sNum, "hdralloc")]
  ELSE IF f.sectors * KSectorSize < SizeofPCDFile
  THEN failWith("PCD file is too small to be valid", "short")
  ELSE IF ~f.ipiSig /\ ~f.opaSig
  THEN failWith("That is not a valid PCD file", "sig")
  ELSE IF f.interleaveRatio # 1
  THEN failWith("The file contains interleaved audio", "audio")
  ELSE IF ULess(m3.baseScene, ToUnsigned(kBase16))
  THEN [ m |-> [m3 EXCEPT !.errorString = "No valid base image could be found"],
         ret |-> "false",
         obs |-> [ obs0 EXCEPT !.cause = "nobase",
                               !.open = openFiles(fpLeftOpen("nobase"), FALSE) ] ]
  ELSE IF m4.sceneNumber >= k4Base
  THEN [ m |-> d.m, ret |-> IF d.crash THEN "crash" ELSE "true",
         obs |-> [ obs0 EXCEPT !.failed = d.failed, !.icCalled = d.icCalled,
                               !.ipe = IF d.icCalled THEN ipe ELSE NoIpe,
                               !.hTablesNull = d.hTablesNull,
                               \* fclose(fp) before return true
                               !.open = openFiles(FALSE, d.icOpen) ] ]
  ELSE [m |-> m4, ret |-> "true", obs |-> obs0]

(***************************************************************************)
(* postParse                                                               *)
(***************************************************************************)

\* variant of one iteration that leaves the consumed delta slots set
postParseLevelKeepingDeltas(m, s) ==
  LET i  == s - k4Base + 1
      W  == PCDLumaWidth[s + 1]
      H  == PCDLumaHeight[s + 1]
      method == pcdMin(kUpResIterpolate, m.upResMethod)
      have1 == m.deltas[i][2] # NULL
      have2 == m.deltas[i][3] # NULL
      dest1 == IF have1 THEN m.deltas[i][2] ELSE Buffer(W \div 2, H \div 2, Indet)
      dest2 == IF have2 THEN m.deltas[i][3] ELSE Buffer(W \div 2, H \div 2, Indet)
  IN
  IF m.deltas[i][1] = NULL THEN [m |-> m, crash |-> FALSE]
  ELSE IF ~upResReadsInBounds(m.luma, W, H)
          \/ ~upResReadsInBounds(m.chroma1, W \div 2, H \div 2)
          \/ ~upResReadsInBounds(m.chroma2, W \div 2, H \div 2)
       THEN [m |-> m, crash |-> TRUE]
  ELSE [ m |-> [ m EXCEPT
                   !.luma = upResBuffer(m.luma, m.deltas[i][1], W, H, method, TRUE),
                   !.chroma1 = upResBuffer(m.chroma1, dest1, W \div 2, H \div 2, method, have1),
                   !.chroma2 = upResBuffer(m.chroma2, dest2, W \div 2, H \div 2, method, have2) ],
         crash |-> FALSE ]

\* One iteration of the loop of postParse, for sceneNumber = s.  The
\* chroma malloc of lines 3118 and 3128 is taken to succeed.  Result: the
\* instance and whether the call crashed (upResBuffer reads through base
\* without a NULL test).
postParseLevel(m, s) ==
  LET i  == s - k4Base + 1
      W  == PCDLumaWidth[s + 1]
      H  == PCDLumaHeight[s + 1]
      method == pcdMin(kUpResIterpolate, m.upResMethod)
      have1 == m.deltas[i][2] # NULL
      have2 == m.deltas[i][3] # NULL
      dest1 == IF have1 THEN m.deltas[i][2] ELSE Buffer(W \div 2, H \div 2, Indet)
      dest2 == IF have2 THEN m.deltas[i][3] ELSE Buffer(W \div 2, H \div 2, Indet)
  IN
  IF m.deltas[i][1] = NULL THEN [m |-> m, crash |-> FALSE]
  ELSE IF ~upResReadsInBounds(m.luma, W, H)
          \/ ~upResReadsInBounds(m.chroma1, W \div 2, H \div 2)
          \/ ~upResReadsInBounds(m.chroma2, W \div 2, H \div 2)
       THEN [m |-> m, crash |-> TRUE]
  ELSE [ m |-> [ m EXCEPT
                   !.luma = upResBuffer(m.luma, m.deltas[i][1], W, H, method, TRUE),
                   !.chroma1 = upResBuffer(m.chroma1, dest1, W \div 2, H \div 2, method, have1),
                   !.chroma2 = upResBuffer(m.chroma2, dest2, W \div 2, H \div 2, method, have2),
                   !.deltas[i] = <<NULL, NULL, NULL>> ],
         crash |-> FALSE ]

\* the for loop of postParse from sceneNumber = s to k64Base
RECURSIVE postParseFrom(_, _)
postParseFrom(m, s) ==
  IF s > k64Base THEN [m |-> m, crash |-> FALSE]
  ELSE LET r == postParseLevel(m, s)
       IN  IF r.crash THEN r ELSE postParseFrom(r.m, s + 1)

\* pcdDecode::postParse
postParse(m) ==
  IF m.pcdFileHeader = NULL THEN [m |-> m, crash |-> FALSE]
  ELSE postParseFrom(m, k4Base)

(***************************************************************************)
(* populateBuffers                                                         *)
(***************************************************************************)

\* pcdDecode::getWidth and pcdDecode::getHeight
getWidth(m) ==
  IF m.imageRotate = 1 \/ m.imageRotate = 3
  THEN PCDLumaHeight[m.sceneNumber + 1] ELSE PCDLumaWidth[m.sceneNumber + 1]
getHeight(m) ==
  IF m.imageRotate = 1 \/ m.imageRotate = 3
  THEN PCDLumaWidth[m.sceneNumber + 1] ELSE PCDLumaHeight[m.sceneNumber + 1]

\* interpolateBuffers allocates the two upsampled chroma buffers iff
\* upResMethod >= kUpResIterpolate (resFactor is never 2, so there is no
\* intermediate buffer); the mallocs are taken to succeed
populateAllocs(m) == IF m.upResMethod >= kUpResIterpolate THEN 2 ELSE 0

\* the buffers populateBuffers frees before it returns: c1UpRes and
\* c2UpRes, each if not NULL
populateFrees(m) ==
  (IF m.upResMethod >= kUpResIterpolate THEN 1 ELSE 0)
  + (IF m.upResMethod >= kUpResIterpolate THEN 1 ELSE 0)

\* the planes have the size populateBuffers reads them at: luma as
\* PCDLumaWidth x PCDLumaHeight of sceneNumber, chroma as half of that in
\* each direction
populateReadsInBounds(m) ==
  LET W == PCDLumaWidth[m.sceneNumber + 1]
      H == PCDLumaHeight[m.sceneNumber + 1]
  IN  /\ m.luma.w * m.luma.h >= W * H
      /\ upResReadsInBounds(m.chroma1, W, H)
      /\ upResReadsInBounds(m.chroma2, W, H)

\* pcdDecode::populateBuffers(red, green, blue, alpha, d, dataSize) on an
\* instance with a file loaded and planes of the right size: what is
\* written to the caller's buffers
populateBuffers(m, alpha, dataSize) ==
  LET W   == PCDLumaWidth[m.sceneNumber + 1]
      H   == PCDLumaHeight[m.sceneNumber + 1]
      c1u == IF m.upResMethod >= kUpResIterpolate
             THEN upResBuffer(m.chroma1, Buffer(W, H, Indet), W, H, m.upResMethod, FALSE)
             ELSE m.chroma1
      c2u == IF m.upResMethod >= kUpResIterpolate
             THEN upResBuffer(m.chroma2, Buffer(W, H, Indet), W, H, m.upResMethod, FALSE)
             ELSE m.chroma2
      c1p == IF m.monochrome THEN NULL ELSE c1u
      c2p == IF m.monochrome THEN NULL ELSE c2u
      idx == convertToRGB(m.luma, c1p, c2p, m.colorSpace, m.whiteBalance)
  IN  [ width |-> getWidth(m), height |-> getHeight(m),
        red |-> outputValue(dataSize, idx[1]),
        green |-> outputValue(dataSize, idx[2]),
        blue |-> outputValue(dataSize, idx[3]),
        alpha |-> IF alpha THEN <<outputAlpha(dataSize)>> ELSE << >> ]

\* what a populateBuffers call does:
\*   "noop"    no file: return
\*   "crash"   a NULL plane is read, or NULL chroma in the YCC branch
\*   "ub"      sceneNumber is read uninitialised (line 2980), or a plane
\*             is read beyond its end
\*   "convert" the conversion runs as written
populateCase(m) ==
  IF m.sceneNumber = Indet THEN "ub"
  ELSE IF m.pcdFileHeader = NULL THEN "noop"
  ELSE IF m.luma = NULL \/ m.chroma1 = NULL \/ m.chroma2 = NULL THEN "crash"
  ELSE IF ~populateReadsInBounds(m) THEN "ub"
  ELSE IF convertDerefsNull(IF m.monochrome THEN NULL ELSE m.chroma1,
                            IF m.monochrome THEN NULL ELSE m.chroma2, m.colorSpace)
       THEN "crash"
  ELSE "convert"

(***************************************************************************)
(* The public calls as actions                                             *)
(***************************************************************************)

\* what an out-of-bounds plane read can deliver
Garbage == {0, 255}

\* one parseFile call: the file, the companion set, the requested level,
\* the memory available and the build's choice at a division by zero
Input(f, ipe, sNum, mem, ub) ==
  [f |-> f, ipe |-> ipe, sNum |-> sNum, mem |-> mem, ub |-> ub]

OkIpe == [path |-> "ok", kind |-> "ok", layers |-> 3, dv |-> 3]
AllMem == 100000000

\* the calls of the parse specification: every file at every level; the
\* complete file with every companion set; the complete file under every
\* memory size
ParseInputs ==
  { Input(Truncated(n), OkIpe, s, AllMem, "continue") :
      n \in SectorCounts, s \in kBase16 .. k64Base }
  \cup { Input([Truncated(n) EXCEPT !.attributes = a], OkIpe, s, AllMem, "continue") :
           n \in {95, 5000}, a \in AttributeBytes, s \in {kBase16, kBase, k4Base, k64Base} }
  \cup { Input(f, OkIpe, s, AllMem, "continue") :
           f \in BadStreamFiles, s \in {k4Base, k16Base, k64Base} }
  \cup { Input(f, OkIpe, s, AllMem, "continue") : f \in OtherFiles, s \in {kBase, k64Base} }
  \cup { Input(GoodFile, i, k64Base, AllMem, "continue") : i \in AllIpes }
  \cup { Input(GoodFile, i, k64Base, AllMem, "crash") : i \in {x \in AllIpes : x.kind = "zeroLen"} }
  \cup { Input(GoodFile, OkIpe, s, mm, "continue") :
           s \in {kBase, k4Base, k64Base}, mm \in MemSizes }

\* the calls of the pipeline specification
PipelineInputs ==
  { Input(GoodFile, OkIpe, s, AllMem, "continue") : s \in kBase16 .. k64Base }
  \cup { Input([GoodFile EXCEPT !.attributes = 11], OkIpe, kBase16, AllMem, "continue"),
         Input([GoodFile EXCEPT !.y = 250, !.dv = 246], OkIpe, k16Base, AllMem, "continue"),
         Input([GoodFile EXCEPT !.c1 = 156, !.c2 = 137, !.dv = 0], OkIpe, k4Base, AllMem, "continue"),
         Input([GoodFile EXCEPT !.s16 = "badplane"], OkIpe, k16Base, AllMem, "continue"),
         Input([GoodFile EXCEPT !.sectors = 2], OkIpe, kBase, AllMem, "continue"),
         Input([GoodFile EXCEPT !.exists = FALSE], OkIpe, kBase, AllMem, "continue"),
         Input([GoodFile EXCEPT !.ipiSig = FALSE], OkIpe, kBase, AllMem, "continue"),
         Input([GoodFile EXCEPT !.interleaveRatio = 2], OkIpe, kBase, AllMem, "continue"),
         Input(GoodFile, OkIpe, k4Base, 595969, "continue") }

\* pcdDecode::setIsMonoChrome
setIsMonoChrome(m, val) == [m EXCEPT !.monochrome = (m.monochrome \/ val)]

\* what lastCall keeps of a setter call
SetterCall == [op |-> "set", ret |-> "true", obs |-> NULL]

\* the last call returned: after a crash there is no further call
Returned == lastCall.ret # "crash"

\* the members after the constructor
InitMembers ==
  /\ upResMethod = Constructed.upResMethod
  /\ monochrome = Constructed.monochrome
  /\ luma = Constructed.luma
  /\ chroma1 = Constructed.chroma1
  /\ chroma2 = Constructed.chroma2
  /\ deltas = Constructed.deltas
  /\ imageRotate = Constructed.imageRotate
  /\ imageResolution = Constructed.imageResolution
  /\ colorSpace = Constructed.colorSpace
  /\ whiteBalance = Constructed.whiteBalance
  /\ baseScene = Constructed.baseScene
  /\ sceneNumber = Constructed.sceneNumber
  /\ pcdFileHeader = Constructed.pcdFileHeader
  /\ errorString = Constructed.errorString

Init ==
  /\ InitMembers
  /\ lastCall = [op |-> "constructor", ret |-> "true", obs |-> NULL]
  /\ postParsed = FALSE
  /\ monoTrace = "none"
  /\ tempLive = 0
  /\ image = NULL /\ workers = NULL /\ readBuf = NULL /\ pixel = NULL
  /\ huff = NULL /\ walk = NULL /\ heap = NULL

ParseFile(inputs) ==
  /\ Returned
  /\ \E in \in inputs :
       \E r \in {parseFile(self, in.f, in.ipe, in.sNum, in.mem, in.ub)} :
           /\ Assign(r.m)
           /\ lastCall' = [op |-> "parseFile", ret |-> r.ret, obs |-> r.obs]
  /\ postParsed' = FALSE
  /\ monoTrace' = IF monochrome THEN "other" ELSE "none"
  /\ UNCHANGED << tempLive, components >>

PostParse ==
  /\ Returned
  /\ \E r \in {postParse(self)} :
         /\ Assign(r.m)
         /\ lastCall' = [ op |-> "postParse", ret |-> IF r.crash THEN "crash" ELSE "true",
                          obs |-> [after |-> lastCall.op] ]
         /\ postParsed' = (pcdFileHeader # NULL /\ ~r.crash)
  /\ UNCHANGED << monoTrace, tempLive, components >>

\* populateFloatBuffers, populateUInt16Buffers and populateUInt8Buffers,
\* called as the header requires: after postParse when a file is loaded.
\* obs.origin is the index at which the pixel of source row 0, column 0 is
\* stored (pixel stride 1)
Populate ==
  /\ Returned
  /\ pcdFileHeader = NULL \/ postParsed
  /\ \E c \in {populateCase(self)} :
     \E dataSize \in {pcdByteSize, pcdInt16Size, pcdFloatSize}, alpha \in BOOLEAN,
        ub \in IF c = "ub" THEN UBChoices ELSE {"continue"},
        g \in IF c = "ub" THEN Garbage ELSE {0} :
       LET ret == IF c = "crash" \/ (c = "ub" /\ ub = "crash") THEN "crash" ELSE "true"
           out == IF ret = "crash" \/ pcdFileHeader = NULL THEN NULL
                  ELSE IF c = "convert" THEN populateBuffers(self, alpha, dataSize)
                  ELSE [ width |-> getWidth(self), height |-> getHeight(self),
                         red |-> g, green |-> g, blue |-> g,
                         alpha |-> IF alpha THEN <<outputAlpha(dataSize)>> ELSE << >> ]
       IN  /\ lastCall' = [ op |-> "populate", ret |-> ret,
                            obs |-> [ dataSize |-> dataSize, alpha |-> alpha, out |-> out,
                                      origin |-> IF out = NULL THEN NULL
                                                 ELSE destIndex(imageRotate, 0, 0,
                                                        PCDLumaWidth[sceneNumber + 1],
                                                        PCDLumaHeight[sceneNumber + 1], 1) ] ]
           /\ tempLive' = IF ret = "crash" \/ pcdFileHeader = NULL THEN tempLive
                          ELSE tempLive + populateAllocs(self) - populateFrees(self)
  /\ UNCHANGED << members, postParsed, monoTrace, components >>

SetInterpolation(value) ==
  /\ Returned
  /\ upResMethod' = value
  /\ lastCall' = SetterCall
  /\ UNCHANGED << monochrome, luma, chroma1, chroma2, deltas, imageRotate,
                  imageResolution, colorSpace, whiteBalance, baseScene, sceneNumber,
                  pcdFileHeader, errorString, postParsed, monoTrace,
                  tempLive, components >>

SetColorSpace(value) ==
  /\ Returned
  /\ colorSpace' = value
  /\ lastCall' = SetterCall
  /\ UNCHANGED << upResMethod, monochrome, luma, chroma1, chroma2, deltas, imageRotate,
                  imageResolution, whiteBalance, baseScene, sceneNumber,
                  pcdFileHeader, errorString, postParsed, monoTrace,
                  tempLive, components >>

SetWhiteBalance(value) ==
  /\ Returned
  /\ whiteBalance' = value
  /\ lastCall' = SetterCall
  /\ UNCHANGED << upResMethod, monochrome, luma, chroma1, chroma2, deltas, imageRotate,
                  imageResolution, colorSpace, baseScene, sceneNumber,
                  pcdFileHeader, errorString, postParsed, monoTrace,
                  tempLive, components >>

SetIsMonoChrome(val) ==
  /\ Returned
  /\ monochrome' = setIsMonoChrome(self, val).monochrome
  /\ monoTrace' = IF monoTrace = "none" /\ val THEN "true"
                  ELSE IF monoTrace = "true" /\ ~val THEN "true,false"
                  ELSE "other"
  /\ lastCall' = SetterCall
  /\ UNCHANGED << upResMethod, luma, chroma1, chroma2, deltas, imageRotate,
                  imageResolution, colorSpace, whiteBalance, baseScene, sceneNumber,
                  pcdFileHeader, errorString, postParsed, tempLive, components >>

Next ==
  \/ ParseFile(PipelineInputs)
  \/ PostParse
  \/ Populate
  \/ SetInterpolation(kUpResNearest)
  \/ \E v \in {kPCDsRGBColorSpace, kPCDYCCColorSpace} : SetColorSpace(v)
  \/ SetWhiteBalance(kPCDD50White)
  \/ \E b \in BOOLEAN : SetIsMonoChrome(b)

Spec == Init /\ [][Next]_vars

\* parseFile on every file of the model, on an instance that may have been
\* set to monochrome
NextParse ==
  \/ ParseFile(ParseInputs)
  \/ SetIsMonoChrome(TRUE)

SpecParse == Init /\ [][NextParse]_vars

(***************************************************************************)
(* One resolution step on explicit planes.  A plane is the sequence of its  *)
(* bytes in row-major order: pixel (column, row) of a plane of the given   *)
(* width is element column + row * width + 1.                              *)
(***************************************************************************)

\* the number of row bands of the two parallel phases
kNumThreads == 8

\* the planes of the component model: the chroma base is QuarterWidth
\* columns by kNumThreads * BandUnit rows, the luma base twice and the
\* assembled image four times that in each direction
QuarterWidth == 1
BandUnit == 1
ImageWidth == 4 * QuarterWidth
ImageHeight == 4 * kNumThreads * BandUnit

\* rd[thread].startRow and rd[thread].endRow as the loops of upResBuffer and
\* populateBuffers set them
bandEndRow(height, thread) == (height \div kNumThreads) * (thread + 1)
\* variant of bandStartRow that leaves previousRow at the first row
bandStartRowFirst(height, thread) == 0

bandStartRow(height, thread) == IF thread = 0 THEN 0 ELSE bandEndRow(height, thread - 1)

\* upResInterpolate(rd): the rows and indices of dest one worker writes
upResRowsWritten(startRow, endRow) ==
  2 * (startRow \div 2) .. 2 * (endRow \div 2) - 1
upResWrites(width, startRow, endRow) ==
  { x + y * width : x \in 0 .. 2 * (width \div 2) - 1,
                    y \in upResRowsWritten(startRow, endRow) }

\* the indices of base one worker reads: its own base rows and, through
\* rowPlus, the row below
upResBaseReads(width, height, startRow, endRow) ==
  { c + pcdMin(r + dr, (height \div 2) - 1) * (width \div 2) :
      c \in 0 .. (width \div 2) - 1,
      r \in (startRow \div 2) .. (endRow \div 2) - 1,
      dr \in {0, 1} }

\* the indices of dest one worker reads: the deltas at the positions it writes
upResDestReads(width, startRow, endRow, hasDeltas) ==
  IF hasDeltas THEN upResWrites(width, startRow, endRow) ELSE {}

\* the byte upResInterpolate stores at pixel (x, y) of dest
upResInterpolateAt(base, dest, width, height, hasDeltas, x, y) ==
  LET column     == x \div 2
      row        == y \div 2
      columnPlus == pcdMin(column + 1, (width \div 2) - 1)
      rowPlus    == pcdMin(row + 1, (height \div 2) - 1)
      at(c, r)   == base[c + r * (width \div 2) + 1]
  IN  upResInterpolate(at(column, row), at(columnPlus, row), at(column, rowPlus),
                       at(columnPlus, rowPlus), dest[x + y * width + 1],
                       hasDeltas)[1 + (x % 2) + 2 * (y % 2)]

\* dest after one worker has run on the band [startRow, endRow)
upResInterpolateBand(base, dest, width, height, hasDeltas, startRow, endRow) ==
  LET written == upResWrites(width, startRow, endRow)
  IN
  [ i \in 1 .. Len(dest) |->
      IF (i - 1) \in written
      THEN upResInterpolateAt(base, dest, width, height, hasDeltas,
                              (i - 1) % width, (i - 1) \div width)
      ELSE dest[i] ]

\* dest after the workers of the bands thread .. kNumThreads - 1 have run
RECURSIVE upResInterpolateFrom(_, _, _, _, _, _)
upResInterpolateFrom(base, dest, width, height, hasDeltas, thread) ==
  IF thread >= kNumThreads THEN dest
  ELSE upResInterpolateFrom(base,
         upResInterpolateBand(base, dest, width, height, hasDeltas,
                              bandStartRow(height, thread), bandEndRow(height, thread)),
         width, height, hasDeltas, thread + 1)

\* upResBuffer(base, dest, luma, width, height, upResMethod, hasDeltas) on
\* explicit planes: the new content of dest
upResBufferPlane(base, dest, width, height, method, hasDeltas) ==
  IF method >= kUpResIterpolate
  THEN upResInterpolateFrom(base, dest, width, height, hasDeltas, 0)
  ELSE [ i \in 1 .. Len(dest) |->
           IF (i - 1) \div width < height
           THEN upResNearest(base[(((i - 1) % width) \div 2)
                                  + (((i - 1) \div width) \div 2) * (width \div 2) + 1],
                             dest[i], hasDeltas)
           ELSE dest[i] ]

\* convertToRGB(rd): the set of destination indices one worker writes
convertWrites(rotate, columns, rows, d, startRow, endRow) ==
  { destIndex(rotate, row, col, columns, rows, d) :
      row \in startRow .. endRow - 1, col \in 0 .. columns - 1 }

\* the source pixels <<row, col>> of all bands whose destination index is j
convertWriters(rotate, columns, rows, d, j) ==
  { rc \in (0 .. bandEndRow(rows, kNumThreads - 1) - 1) \X (0 .. columns - 1) :
      destIndex(rotate, rc[1], rc[2], columns, rows, d) = j }

\* a position of the caller's buffer that no worker wrote
Unwritten == << >>

\* the source pixel <<row, col>> that the workers of populateBuffers store
\* at each destination index (pixel stride 1), Unwritten where none does
convertSourceOf(rotate, columns, rows) ==
  LET source == (0 .. bandEndRow(rows, kNumThreads - 1) - 1) \X (0 .. columns - 1)
      dests  == [rc \in source |-> destIndex(rotate, rc[1], rc[2], columns, rows, 1)]
  IN  [ j \in 0 .. columns * rows - 1 |->
          IF \E rc \in source : dests[rc] = j
          THEN CHOOSE rc \in source : dests[rc] = j
          ELSE Unwritten ]

\* the same for the planes of the component model, by rotation
convertSource == [rotate \in 0 .. 3 |-> convertSourceOf(rotate, ImageWidth, ImageHeight)]

\* populateBuffers on explicit planes with pixel stride 1: the LUT index
\* triple stored at each position of the caller's buffers.  im holds the
\* members; its planes are columns x rows (luma) and half of that (chroma).
populatePlanes(im, columns, rows) ==
  LET up   == im.upResMethod >= kUpResIterpolate
      fresh == [i \in 1 .. columns * rows |-> Indet]
      c1u  == IF up THEN upResBufferPlane(im.chroma1, fresh, columns, rows, im.upResMethod, FALSE)
              ELSE im.chroma1
      c2u  == IF up THEN upResBufferPlane(im.chroma2, fresh, columns, rows, im.upResMethod, FALSE)
              ELSE im.chroma2
      resFactor == IF up THEN 0 ELSE 1
      shift(x) == IF resFactor = 1 THEN x \div 2 ELSE x
      converted(row, col) ==
        LET lumaIndex   == col + row * columns
            chromaIndex == shift(col) + shift(row) * shift(columns)
        IN  convertToRGB([v |-> im.luma[lumaIndex + 1]],
                         IF im.monochrome THEN NULL ELSE [v |-> c1u[chromaIndex + 1]],
                         IF im.monochrome THEN NULL ELSE [v |-> c2u[chromaIndex + 1]],
                         im.colorSpace, im.whiteBalance)
      sources == IF columns = ImageWidth /\ rows = ImageHeight
                 THEN convertSource[im.imageRotate]
                 ELSE convertSourceOf(im.imageRotate, columns, rows)
  IN  [ j \in 1 .. columns * rows |->
          IF sources[j - 1] = Unwritten THEN Unwritten
          ELSE converted(sources[j - 1][1], sources[j - 1][2]) ]

\* the loop body of postParse for one level on explicit planes: im.deltas
\* is the luma delta of the level (no chroma deltas), the planes are half
\* of columns x rows (luma) and a quarter (chroma)
postParsePlanes(im, columns, rows) ==
  IF im.deltas = NULL THEN im
  ELSE LET method == pcdMin(kUpResIterpolate, im.upResMethod)
           fresh  == [i \in 1 .. (columns \div 2) * (rows \div 2) |-> Indet]
       IN  [ im EXCEPT
               !.luma = upResBufferPlane(im.luma, im.deltas, columns, rows, method, TRUE),
               !.chroma1 = upResBufferPlane(im.chroma1, fresh, columns \div 2, rows \div 2,
                                            method, FALSE),
               !.chroma2 = upResBufferPlane(im.chroma2, fresh, columns \div 2, rows \div 2,
                                            method, FALSE),
               !.deltas = NULL ]

\* the planes of a parsed file: a luma base plane, two chroma planes of
\* half its size and the luma delta of the next level.  y0, sx and sy give
\* the luma base its value at column 0, row 0 and its slope along a row
\* and a column
Plane(width, height, y0, sx, sy) ==
  [ i \in 1 .. width * height |->
      (y0 + sx * ((i - 1) % width) + sy * ((i - 1) \div width)) % 256 ]

\* delta bytes -2 .. 2 as stored (two's complement)
DeltaPlane(width, height) ==
  [ i \in 1 .. width * height |->
      (((((i - 1) % width) + 2 * ((i - 1) \div width)) % 5) + 254) % 256 ]

LumaPatterns == { <<200, 0, 0>>, <<10, 60, 7>>, <<250, 3, 1>> }

ParsedPlanes(p) ==
  [ luma    |-> Plane(ImageWidth \div 2, ImageHeight \div 2, p[1], p[2], p[3]),
    chroma1 |-> Plane(ImageWidth \div 4, ImageHeight \div 4, 100, 0, 10),
    chroma2 |-> Plane(ImageWidth \div 4, ImageHeight \div 4, 200, 0, 255),
    deltas  |-> DeltaPlane(ImageWidth, ImageHeight) ]

\* the instance after the constructor and a parseFile that read the planes
\* pl and the rotation rotate
ImageParsed(pl, rotate) ==
  [ upResMethod |-> Constructed.upResMethod, monochrome |-> Constructed.monochrome,
    colorSpace |-> Constructed.colorSpace, whiteBalance |-> Constructed.whiteBalance,
    imageRotate |-> rotate,
    luma |-> pl.luma, chroma1 |-> pl.chroma1, chroma2 |-> pl.chroma2,
    deltas |-> pl.deltas,
    parsed |-> pl, postParsed |-> FALSE, out |-> NULL ]

InitImage ==
  /\ InitMembers
  /\ lastCall = [op |-> "constructor", ret |-> "true", obs |-> NULL]
  /\ postParsed = FALSE /\ monoTrace = "none" /\ tempLive = 0
  /\ workers = NULL /\ readBuf = NULL /\ pixel = NULL
  /\ huff = NULL /\ walk = NULL /\ heap = NULL
  /\ image \in { ImageParsed(ParsedPlanes(p), r) : p \in LumaPatterns, r \in 0 .. 3 }

ImageSetInterpolation(value) ==
  /\ image' = [image EXCEPT !.upResMethod = value]
  /\ UNCHANGED << decoder, workers, readBuf, pixel, huff, walk, heap >>

ImageSetColorSpace(value) ==
  /\ image' = [image EXCEPT !.colorSpace = value]
  /\ UNCHANGED << decoder, workers, readBuf, pixel, huff, walk, heap >>

ImagePostParse ==
  /\ image' = [postParsePlanes(image, ImageWidth, ImageHeight) EXCEPT !.postParsed = TRUE]
  /\ UNCHANGED << decoder, workers, readBuf, pixel, huff, walk, heap >>

ImagePopulate ==
  /\ image.postParsed
  /\ image' = [image EXCEPT !.out = populatePlanes(image, ImageWidth, ImageHeight)]
  /\ UNCHANGED << decoder, workers, readBuf, pixel, huff, walk, heap >>

NextImage ==
  \/ \E v \in {kUpResNearest, kUpResIterpolate} : ImageSetInterpolation(v)
  \/ \E v \in {kPCDsRGBColorSpace, kPCDYCCColorSpace} : ImageSetColorSpace(v)
  \/ ImagePostParse
  \/ ImagePopulate

SpecImage == InitImage /\ [][NextImage]_vars
(***************************************************************************)
(* One pixel in convertToRGB                                               *)
(***************************************************************************)

\* enum LUTValues
numLUTItems == 1389

\* the bytes a plane can hold, and the chroma bytes of the pixel model:
\* the extremes, the two neutral values and one value in between
ByteValues == 0 .. 255
ChromaSamples == {0, 100, 137, 156, 255}

\* the pixels handed to convertToRGB: the bytes at lumaIndex and
\* chromaIndex and the fields of ConvertToRGBData the conversion reads
PixelInputs ==
  [ y : ByteValues, c1 : ChromaSamples, c2 : ChromaSamples,
    colorSpace : {kPCDRawColorSpace, kPCDLinearCCIR709ColorSpace,
                  kPCDsRGBColorSpace, kPCDYCCColorSpace},
    whiteBalance : {kPCDD65White, kPCDD50White},
    monochrome : BOOLEAN ]

\* table[i]; a read outside the table delivers an indeterminate value
lutRead(table, i) == IF i \in 0 .. numLUTItems - 1 THEN table[i + 1] ELSE Indet

\* what the three output formats store for the LUT index triple idx
Delivered(idx) ==
  [ u8  |-> << lutRead(uint8Output, idx[1]), lutRead(uint8Output, idx[2]),
               lutRead(uint8Output, idx[3]) >>,
    u16 |-> << lutRead(uint16Output, idx[1]), lutRead(uint16Output, idx[2]),
               lutRead(uint16Output, idx[3]) >>,
    f32 |-> << lutRead(floatOutput, idx[1]), lutRead(floatOutput, idx[2]),
               lutRead(floatOutput, idx[3]) >> ]

InitPixel ==
  /\ InitMembers
  /\ lastCall = [op |-> "constructor", ret |-> "true", obs |-> NULL]
  /\ postParsed = FALSE /\ monoTrace = "none" /\ tempLive = 0
  /\ image = NULL /\ workers = NULL /\ readBuf = NULL
  /\ huff = NULL /\ walk = NULL /\ heap = NULL
  /\ pixel \in { [in |-> p, ret |-> "none", idx |-> NULL, out |-> NULL] : p \in PixelInputs }

\* the loop body of convertToRGB for one pixel.  With monochrome set
\* rd->c1p and rd->c2p are NULL; the YCC branch reads through them: the
\* read faults, or delivers whatever byte is mapped there.
ConvertPixel ==
  /\ pixel.ret = "none"
  /\ LET in   == pixel.in
         null == convertDerefsNull(IF in.monochrome THEN NULL ELSE [v |-> in.c1],
                                   IF in.monochrome THEN NULL ELSE [v |-> in.c2],
                                   in.colorSpace)
     IN  \E ub \in IF null THEN UBChoices ELSE {"continue"},
            g \in IF null THEN Garbage ELSE {0} :
           IF ub = "crash"
           THEN pixel' = [pixel EXCEPT !.ret = "crash"]
           ELSE \E idx \in { convertToRGB([v |-> in.y],
                               IF null THEN [v |-> g]
                               ELSE IF in.monochrome THEN NULL ELSE [v |-> in.c1],
                               IF null THEN [v |-> g]
                               ELSE IF in.monochrome THEN NULL ELSE [v |-> in.c2],
                               in.colorSpace, in.whiteBalance) } :
                  pixel' = [pixel EXCEPT !.ret = "true", !.idx = idx, !.out = Delivered(idx)]
  /\ UNCHANGED << decoder, image, workers, readBuf, huff, walk, heap >>

NextPixel == ConvertPixel

SpecPixel == InitPixel /\ [][NextPixel]_vars
(***************************************************************************)
(* The bit reader (struct ReadBuffer) and the Huffman stage                *)
(***************************************************************************)

\* A stream is the part of a file from the position the caller seeks to:
\* fill filler bytes, then the bytes of body, then zeros; len is the number
\* of bytes the file holds from that position
FileByte(f, i) ==
  IF i < f.fill THEN f.fillByte
  ELSE IF i - f.fill < Len(f.body) THEN f.body[i - f.fill + 1]
  ELSE 0

\* byte b as eight bits, most significant first
ByteBits(b) == [i \in 1 .. 8 |-> (b \div (2 ^ (8 - i))) % 2]

\* unsigned long sum, of which the code keeps 32 bits: the bits from the
\* most significant (element 1) to the least significant (element 32)
ZeroSum == [i \in 1 .. 32 |-> 0]

\* (sum << n) & 0xffffffff
ShiftLeft(sum, n) == [i \in 1 .. 32 |-> IF i + n <= 32 THEN sum[i + n] ELSE 0]

\* sum | ((unsigned int) byte << (24 - bits)), for bits <= 24
OrByte(sum, byte, bits) ==
  [ i \in 1 .. 32 |->
      IF i \in bits + 1 .. bits + 8
      THEN IF sum[i] = 1 \/ ByteBits(byte)[i - bits] = 1 THEN 1 ELSE 0
      ELSE sum[i] ]

\* the byte at sbuffer[i]: the last fread stored got bytes from file offset
\* base at the start of sbuffer; behind them the buffer still holds what
\* the fread before it stored (a whole sector from offset old), or what the
\* stack held when no sector was read before (old = Indet)
sbufferAt(b, i) ==
  IF i < b.got THEN FileByte(b.file, b.base + i)
  ELSE IF b.old = Indet THEN b.stack
  ELSE FileByte(b.file, b.old + i)

\* readNextSector(buffer): fread delivers what the file still holds, at
\* most KSectorSize bytes; nothing left: return false
readNextSector(b) ==
  LET d == pcdMin(KSectorSize, b.file.len - b.fpos)
  IN  IF d < 1 THEN [b |-> b, ok |-> FALSE]
      ELSE [ b |-> [b EXCEPT !.base = b.fpos, !.got = d, !.fpos = b.fpos + d,
                             !.old = IF b.got = 0 THEN Indet ELSE b.base],
             ok |-> TRUE ]

\* the while loop of PCDGetBits; threw: "Unexpected end of file in Huffman
\* sequence"
RECURSIVE refill(_)
refillStep(b) ==
  IF b.bits > 24 THEN [b |-> b, threw |-> FALSE]
  ELSE IF b.p >= KSectorSize
       THEN LET r == readNextSector(b)
            IN  IF ~r.ok THEN [b |-> r.b, threw |-> TRUE]
                ELSE refill([r.b EXCEPT !.p = 1, !.bits = b.bits + 8,
                                        !.sum = OrByte(b.sum, sbufferAt(r.b, 0), b.bits)])
       ELSE refill([b EXCEPT !.p = b.p + 1, !.bits = b.bits + 8,
                             !.sum = OrByte(b.sum, sbufferAt(b, b.p), b.bits)])
\* (the buffer is evaluated once and handed on as a value)
refill(buffer) == CHOOSE g \in { refillStep(b) : b \in {buffer} } : TRUE

\* variant of PCDGetBits that returns at the end of the file as if nothing
\* had been asked for
PCDGetBitsNoThrow(buffer, n) ==
  CHOOSE r \in
    { LET g == refill([b EXCEPT !.sum = ShiftLeft(b.sum, n), !.bits = b.bits - n,
                               !.consumed = b.consumed + n])
      IN  IF g.threw THEN [b |-> b, threw |-> FALSE] ELSE g : b \in {buffer} } : TRUE

\* PCDGetBits(buffer, n); consumed counts the bits shifted out so far
PCDGetBits(buffer, n) ==
  CHOOSE g \in
    { refill([b EXCEPT !.sum = ShiftLeft(b.sum, n), !.bits = b.bits - n,
                      !.consumed = b.consumed + n]) : b \in {buffer} } : TRUE

\* initReadBuffer(buffer, file) on a ReadBuffer of the caller's stack
initReadBuffer(f, stack) ==
  PCDGetBits([ file |-> f, fpos |-> 0, base |-> 0, got |-> 0, old |-> Indet,
               stack |-> stack, p |-> KSectorSize, bits |-> 0, sum |-> ZeroSum,
               consumed |-> 0 ], 0)

\* variant of the second test that compares the top 20 bits with 0xFFFFE
syncTest2Top20(sum) == (\A i \in 1 .. 19 : sum[i] = 1) /\ sum[20] = 0

\* the loop tests of syncHuffman
\* (b->sum & 0x00fff000) == 0x00fff000
syncTest1(sum) == \A i \in 9 .. 20 : sum[i] = 1
\* (b->sum & 0xffffff00) == 0xfffffe00
syncTest2(sum) == (\A i \in 1 .. 23 : sum[i] = 1) /\ sum[24] = 0

\* the per-level tables of the sequence header
RowShift == <<0, 0, 0, 9, 9, 6>>
RowMask == <<0, 0, 0, 8191, 8191, 16383>>
RowSubSample == <<1, 1, 1, 1, 1, 2>>
SequenceShift == <<0, 0, 0, 0, 0, 1>>
SequenceMask == <<0, 0, 0, 0, 0, 15>>
PlaneShift == <<0, 0, 0, 22, 22, 19>>
\* variant with the 64Base mask at every level
PlaneMaskAll6 == <<0, 0, 0, 6, 6, 6>>

PlaneMask == <<0, 0, 0, 3, 3, 6>>
HuffmanHeaderSize == <<0, 0, 0, 3, 3, 4>>
kHuffmanErrorLen == 31

\* (sum >> shift) & mask, for masks of up to 14 bits
RECURSIVE FieldFrom(_, _, _, _)
FieldFrom(sum, shift, mask, j) ==
  IF j > 13 THEN 0
  ELSE (IF (mask \div (2 ^ j)) % 2 = 1 THEN sum[32 - (shift + j)] * (2 ^ j) ELSE 0)
       + FieldFrom(sum, shift, mask, j + 1)
Field(sum, shift, mask) == FieldFrom(sum, shift, mask, 0)

\* readHuffTable: entry e (its length field + 1 in len, its left-justified
\* code word in codeWord as 16 bits, its key) sets the slots codeWord | index
\* for index < 2^(16 - len); code is the slot looked up
entrySets(e, code) ==
  /\ \A i \in 1 .. e.len : code[i] = e.codeWord[i]
  /\ \A i \in e.len + 1 .. 16 : e.codeWord[i] = 1 => code[i] = 1

\* huf->len[code] and huf->key[code] after readHuffTable has processed the
\* entries in order
huffSlot(entries, code) ==
  LET hits == { k \in 1 .. Len(entries) : entrySets(entries[k], code) }
  IN  IF hits = {} THEN [len |-> kHuffmanErrorLen, key |-> 127]
      ELSE LET k == CHOOSE k \in hits : \A j \in hits : j <= k
           IN  [len |-> entries[k].len, key |-> entries[k].key]

\* the top 16 bits of the accumulator: (b->sum >> 16) & 0xffff
TopCode(sum) == [i \in 1 .. 16 |-> sum[i]]

\* the code word of the bits given, left-justified
CodeWord(bitsGiven) ==
  [i \in 1 .. 16 |-> IF i <= Len(bitsGiven) THEN bitsGiven[i] ELSE 0]

\* the Huffman table of the model: 0 -> 0, 10 -> 1, 110 -> -1; every code
\* that starts with 111 is an error slot
ModelTable ==
  << [len |-> 1, codeWord |-> CodeWord(<<0>>), key |-> 0],
     [len |-> 2, codeWord |-> CodeWord(<<1, 0>>), key |-> 1],
     [len |-> 3, codeWord |-> CodeWord(<<1, 1, 0>>), key |-> 255] >>

\* planeTrack with the bit of plane k (0, 1, 2) cleared
ClearPlane(planeTrack, k) ==
  planeTrack - (IF (planeTrack \div (2 ^ k)) % 2 = 1 THEN 2 ^ k ELSE 0)

\* the test of the while loop of readPCDDeltas, and the call of syncHuffman
\* that starts an iteration
EnterLoop(r) ==
  IF (r.planeTrack # 0 \/ r.row < PCDLumaHeight[r.sceneSelect + 1])
     /\ r.sequencesToProcess > 0
  THEN [r EXCEPT !.pc = "sync1", !.ret = "header", !.syncStart = r.b.consumed]
  ELSE [r EXCEPT !.pc = "done"]

\* the call readPCDDeltas(buf, huf, sceneSelect, sequenceSize,
\* sequencesToProcess, data, colOffset) on a fresh ReadBuffer; have[k] says
\* that data[k-1] is not NULL
ReadCall(f, stack, sceneSelect, sequenceSize, sequencesToProcess, have) ==
  [ pc |-> "new", ret |-> "header", file |-> f, stack |-> stack, b |-> NULL,
    sceneSelect |-> sceneSelect, sequenceSize |-> sequenceSize,
    sequencesToProcess |-> sequencesToProcess,
    have |-> have,
    planeTrack |-> (IF have[1] THEN 1 ELSE 0) + (IF have[2] THEN 2 ELSE 0)
                   + (IF have[3] THEN 4 ELSE 0),
    row |-> 0, sequence |-> 0, plane |-> 0, count |-> 0, i |-> 0, length |-> 0,
    table |-> 0, syncStart |-> 0, colOffset |-> 0, dest |-> 0, wrote |-> NULL ]

\* the same call with the column offset of a 64Base layer description
ReadCallAt(call, colOffset) == [call EXCEPT !.colOffset = colOffset]

\* the offset in data[k] of the dest argument of PCDDecodeHuffman
destOffset(r, k) ==
  LET s == r.sceneSelect + 1
  IN  IF k = 0
      THEN r.row * PCDLumaWidth[s] + r.sequence * r.sequenceSize + r.colOffset
      ELSE (r.row \div 2) * PCDChromaWidth[s] + r.sequence * r.sequenceSize
           + (r.colOffset \div 2)

\* variant of the recovery that zeroes from the failing symbol on
zeroedFromFailure(dest, i, length) ==
  [lo |-> dest + i, hi |-> dest + length, zero |-> TRUE]

\* the bytes the recovery loop of PCDDecodeHuffman sets to zero: lo up to,
\* not including, hi
zeroedOnError(dest, i, length) == [lo |-> dest, hi |-> dest + length, zero |-> TRUE]

\* initReadBuffer and the entry of readPCDDeltas
ReadStart ==
  /\ readBuf.pc = "new"
  /\ \E g \in {initReadBuffer(readBuf.file, readBuf.stack)} :
       readBuf' =
         IF g.threw THEN [readBuf EXCEPT !.pc = "eof", !.b = g.b]
         ELSE EnterLoop([ readBuf EXCEPT
                !.b = g.b,
                !.sequencesToProcess =
                   IF readBuf.sequencesToProcess = 0
                   THEN IF readBuf.sceneSelect = k64Base THEN 1
                        ELSE PCDLumaHeight[readBuf.sceneSelect + 1]
                             + 2 * PCDChromaHeight[readBuf.sceneSelect + 1]
                   ELSE readBuf.sequencesToProcess ])
  /\ UNCHANGED << decoder, image, workers, pixel, huff, walk, heap >>

\* one test of a loop of syncHuffman and, when it fails, the PCDGetBits of
\* its body
SyncHuffmanStep ==
  /\ readBuf.pc \in {"sync1", "sync2"}
  /\ IF readBuf.pc = "sync1" /\ syncTest1(readBuf.b.sum)
     THEN readBuf' = [readBuf EXCEPT !.pc = "sync2"]
     ELSE IF readBuf.pc = "sync2" /\ syncTest2(readBuf.b.sum)
     THEN readBuf' = [readBuf EXCEPT !.pc = readBuf.ret]
     ELSE \E g \in {PCDGetBits(readBuf.b, IF readBuf.pc = "sync1" THEN 8 ELSE 1)} :
            readBuf' = [readBuf EXCEPT !.b = g.b,
                                       !.pc = IF g.threw THEN "eof" ELSE readBuf.pc]
  /\ UNCHANGED << decoder, image, workers, pixel, huff, walk, heap >>

\* PCDGetBits(buf, 16) and the plane, row and sequence numbers
ReadHeader ==
  /\ readBuf.pc = "header"
  /\ \E g \in {PCDGetBits(readBuf.b, 16)} :
       LET s     == readBuf.sceneSelect + 1
           plane == Field(g.b.sum, PlaneShift[s], PlaneMask[s])
           row   == Field(g.b.sum, RowShift[s], RowMask[s])
       IN  readBuf' =
             IF g.threw THEN [readBuf EXCEPT !.b = g.b, !.pc = "eof"]
             ELSE [ readBuf EXCEPT
                      !.b = g.b, !.pc = "skip", !.count = 0,
                      !.plane = plane,
                      !.sequence = Field(g.b.sum, SequenceShift[s], SequenceMask[s]),
                      !.row = row * (IF plane = 0 THEN 1 ELSE RowSubSample[s]) ]
  /\ UNCHANGED << decoder, image, workers, pixel, huff, walk, heap >>

\* variant that takes the tag 1 for chroma1
PlaneIndexOneAsChroma(plane) ==
  IF plane = 0 THEN 0
  ELSE IF plane = 2 \/ plane = 1 THEN 1
  ELSE IF plane = 3 \/ plane = 4 THEN 2
  ELSE Indet

\* the plane a sequence header selects: the index into data and huf->ht,
\* or Indet for the default branch of the switch
PlaneIndex(plane) ==
  IF plane = 0 THEN 0
  ELSE IF plane = 2 THEN 1
  ELSE IF plane = 3 \/ plane = 4 THEN 2
  ELSE Indet

\* the PCDGetBits(buf, 8) calls that skip the rest of the sequence header
\* and, after the last one, the switch on the plane
SkipHeader ==
  /\ readBuf.pc = "skip"
  /\ LET s == readBuf.sceneSelect + 1
         k == PlaneIndex(readBuf.plane)
     IN  IF readBuf.count < HuffmanHeaderSize[s]
         THEN \E g \in {PCDGetBits(readBuf.b, 8)} :
                readBuf' = [readBuf EXCEPT !.b = g.b, !.count = readBuf.count + 1,
                                           !.pc = IF g.threw THEN "eof" ELSE "skip"]
         ELSE IF readBuf.row >= PCDLumaHeight[s]
         THEN readBuf' = [readBuf EXCEPT !.pc = "finish", !.table = Indet]
         ELSE IF k = Indet
         THEN readBuf' = [readBuf EXCEPT !.pc = "corrupt"]
         ELSE IF k = 0 /\ ~readBuf.have[1]
         THEN readBuf' = [readBuf EXCEPT !.pc = "crash"]
         ELSE IF ~readBuf.have[k + 1]
         THEN readBuf' = [readBuf EXCEPT !.pc = "finish", !.table = k]
         ELSE readBuf' =
                [ readBuf EXCEPT
                    !.pc = "decode", !.table = k, !.i = 0,
                    !.dest = destOffset(readBuf, k), !.wrote = NULL,
                    !.length = IF readBuf.sequenceSize = 0
                               THEN IF k = 0 THEN PCDLumaWidth[s] ELSE PCDChromaWidth[s]
                               ELSE readBuf.sequenceSize ]
  /\ UNCHANGED << decoder, image, workers, pixel, huff, walk, heap >>

\* one iteration of the loop of PCDDecodeHuffman: an error slot zeroes
\* the sequence and ends the call with syncHuffman, any other slot stores
\* its key and consumes its length; after the last iteration the call
\* returns.  wrote is the range of data[table] the step wrote
DecodeHuffmanStep ==
  /\ readBuf.pc = "decode"
  /\ LET slot == huffSlot(ModelTable, TopCode(readBuf.b.sum))
     IN  IF readBuf.i >= readBuf.length
         THEN readBuf' = [readBuf EXCEPT !.pc = "finish"]
         ELSE IF slot.len = kHuffmanErrorLen
         THEN readBuf' = [readBuf EXCEPT !.pc = "sync1", !.ret = "finish",
                                         !.syncStart = readBuf.b.consumed,
                                         !.wrote = zeroedOnError(readBuf.dest, readBuf.i,
                                                                 readBuf.length)]
         ELSE \E g \in {PCDGetBits(readBuf.b, slot.len)} :
                readBuf' = [readBuf EXCEPT !.b = g.b, !.i = readBuf.i + 1,
                                           !.wrote = [lo |-> readBuf.dest + readBuf.i,
                                                      hi |-> readBuf.dest + readBuf.i + 1,
                                                      zero |-> FALSE],
                                           !.pc = IF g.threw THEN "eof" ELSE "decode"]
  /\ UNCHANGED << decoder, image, workers, pixel, huff, walk, heap >>

\* the end of an iteration of readPCDDeltas: planeTrack, the sequence count
\* and the test of the while loop
FinishSequence ==
  /\ readBuf.pc = "finish"
  /\ readBuf' =
       EnterLoop([ readBuf EXCEPT
         !.planeTrack = IF readBuf.table = Indet THEN readBuf.planeTrack
                        ELSE ClearPlane(readBuf.planeTrack, readBuf.table),
         !.sequencesToProcess = readBuf.sequencesToProcess - 1 ])
  /\ UNCHANGED << decoder, image, workers, pixel, huff, walk, heap >>

\* the Huffman stage has ended: it returned, or it threw
ReadEnded == readBuf.pc \in {"done", "eof", "corrupt", "crash"}

NextRead ==
  \/ ReadStart
  \/ SyncHuffmanStep
  \/ ReadHeader
  \/ SkipHeader
  \/ DecodeHuffmanStep
  \/ FinishSequence

\* the sync marker, and the bytes of a sequence header behind it: plane,
\* row and (64Base) sequence number at the positions the tables give
Marker == <<255, 255, 254>>
Header4(plane, row) == << plane * 64 + row \div 128, (row % 128) * 2 >>
Header64(plane, row, sequence) ==
  LET v == plane * (2 ^ 19) + row * 64 + sequence * 2
  IN  << v \div 65536, (v \div 256) % 256, v % 256 >>

Stream(fill, fillByte, body, len) ==
  [fill |-> fill, fillByte |-> fillByte, body |-> body, len |-> len]

\* streams of one luma row (plane 0, row 0, zero deltas) behind fill zero
\* bytes, cut after len bytes: before the marker, inside the header, inside
\* the row, at and around the end of the first and of the second sector
RowStreams ==
  { Stream(c[1], 0, Marker \o Header4(0, 0), c[2]) :
      c \in { <<0, 2>>, <<0, 5>>, <<0, 100>>, <<0, 197>>, <<0, 201>>, <<0, 2048>>,
              <<0, 2049>>, <<2044, 2048>>, <<2044, 2049>>, <<2045, 4096>>,
              <<2046, 2300>>, <<2047, 4096>> } }

\* streams of short sequences (64Base, three symbols each): two sequences;
\* an error slot at the first and at the third symbol of the first; markers
\* that do not start at a byte; more than 23 ones before the zero; twelve
\* ones that are no marker; a file that ends 50 bytes into its second
\* sector; no marker
SequenceStreams ==
  { Stream(0, 0, Marker \o Header64(0, 0, 0) \o <<88>> \o Marker \o Header64(0, 0, 1)
                 \o <<88>>, 2048),
    Stream(0, 0, Marker \o Header64(0, 0, 0) \o <<224, 0, 5>> \o Marker
                 \o Header64(0, 1, 0) \o <<88>>, 2048),
    Stream(0, 0, Marker \o Header64(0, 0, 0) \o <<56, 0, 5>> \o Marker
                 \o Header64(0, 1, 0) \o <<88>>, 2048),
    Stream(0, 0, <<127, 255, 255, 0, 0, 0, 44, 3, 255, 255, 248, 0, 0, 0, 0>>, 2048),
    Stream(0, 0, <<255, 255, 255, 255, 254, 0, 0, 0, 88>>, 2048),
    Stream(0, 0, <<15, 255, 240, 1>> \o Marker \o Header64(2, 0, 0) \o <<88>>, 2048),
    Stream(2046, 0, <<15>> \o Marker \o Header64(0, 0, 0) \o <<88, 255, 255, 254>>, 2060),
    Stream(300, 255, <<254>> \o Header64(4, 6, 2) \o <<88>> \o Marker
                     \o Header64(6, 0, 0), 2048),
    Stream(100, 0, Marker \o Header64(0, 0, 0) \o <<88>>, 2098),
    Stream(0, 0, <<1, 2, 3>>, 40),
    Stream(0, 0, <<>>, 0) }

\* the calls of the model: the 4Base and 16Base streams are read a row per
\* sequence, the 64Base streams in sequences of three symbols; the last
\* sequence of the last row of a 64Base luma and chroma plane is read with
\* the column offsets 0 and 6143 of a layer description
ReadCalls ==
  { ReadCall(f, st, k4Base, 0, 0, <<TRUE, FALSE, FALSE>>) :
      f \in RowStreams, st \in Garbage }
  \cup { ReadCall(Stream(0, 0, Marker \o Header4(p[1], p[2]), 400), 0, k16Base, 0, 0, h) :
           p \in { <<0, 0>>, <<2, 0>>, <<3, 2>>, <<1, 0>>, <<0, 5000>>,
                   <<1, 5000>> },
           h \in { <<TRUE, TRUE, TRUE>>, <<TRUE, FALSE, FALSE>>, <<FALSE, FALSE, FALSE>> } }
  \cup { ReadCall(f, 0, k64Base, 3, n, <<TRUE, TRUE, TRUE>>) :
           f \in SequenceStreams, n \in {0, 2} }
  \cup { ReadCallAt(ReadCall(Stream(0, 0, Marker \o Header64(p[1], p[2], 15) \o <<88>>,
                                    2048),
                             0, k64Base, 3, 1, <<TRUE, TRUE, TRUE>>), colOffset) :
           p \in { <<0, 4095>>, <<2, 2047>> }, colOffset \in {0, 6143} }

InitRead ==
  /\ InitMembers
  /\ lastCall = [op |-> "constructor", ret |-> "true", obs |-> NULL]
  /\ postParsed = FALSE /\ monoTrace = "none" /\ tempLive = 0
  /\ image = NULL /\ workers = NULL /\ pixel = NULL
  /\ huff = NULL /\ walk = NULL /\ heap = NULL
  /\ readBuf \in ReadCalls

SpecRead == InitRead /\ [][NextRead]_vars

\* the calls of the fair specification: a row cut at the end of the first
\* sector; headers of a plane that is read, of a plane that is skipped, of
\* no plane and of a row that does not exist; a call without buffers; two
\* sequences; an error slot and the resynchronisation behind it; more ones
\* than a marker has; no marker; an empty file
FairCalls ==
  { ReadCall(Stream(2030, 0, Marker \o Header4(0, 0), 2048), 0, k4Base, 0, 0,
             <<TRUE, FALSE, FALSE>>) }
  \cup { ReadCall(Stream(0, 0, Marker \o Header4(p[1], p[2]), 400), 0, k16Base, 0, 0, h) :
           p \in { <<2, 0>>, <<3, 2>>, <<1, 0>>, <<0, 5000>> },
           h \in { <<TRUE, FALSE, FALSE>>, <<FALSE, FALSE, FALSE>> } }
  \cup { ReadCall(f, 0, k64Base, 3, n, <<TRUE, TRUE, TRUE>>) :
           f \in { Stream(0, 0, Marker \o Header64(0, 0, 0) \o <<88>> \o Marker
                               \o Header64(0, 0, 1) \o <<88>>, 2048),
                   Stream(0, 0, Marker \o Header64(0, 0, 0) \o <<224, 0, 5>> \o Marker
                               \o Header64(0, 1, 0) \o <<88>>, 2048),
                   Stream(0, 0, <<255, 255, 255, 255, 254, 0, 0, 0, 88>>, 2048),
                   Stream(0, 0, <<1, 2, 3>>, 40),
                   Stream(0, 0, <<>>, 0) },
           n \in {0, 2} }

InitReadFair ==
  /\ InitMembers
  /\ lastCall = [op |-> "constructor", ret |-> "true", obs |-> NULL]
  /\ postParsed = FALSE /\ monoTrace = "none" /\ tempLive = 0
  /\ image = NULL /\ workers = NULL /\ pixel = NULL
  /\ huff = NULL /\ walk = NULL /\ heap = NULL
  /\ readBuf \in FairCalls

\* the stage runs on one thread: it takes its next step as long as it has one
SpecReadFair == InitReadFair /\ [][NextRead]_vars /\ WF_vars(NextRead)
(***************************************************************************)
(* The worker threads of upResBuffer and populateBuffers                   *)
(***************************************************************************)

\* variant of the failed start that leaves rd[thread].endRow as it was
endRowKept(endRow) == endRow

\* rd[thread].endRow after pcdStartThread failed: "Don't try to join"
endRowAfterFailedStart(endRow) == 0

\* the test of the join loop
needsJoin(endRow) == endRow > 0

\* one call of upResBuffer (interpolating branch) or of populateBuffers on a
\* plane of the given height: thread is the loop variable, at[t] the state
\* of band t (its work not begun, running on its own thread, finished on
\* its own thread, done inline on the calling thread, joined), started[t]
\* whether pcdStartThread succeeded for it, joins[t] the number of
\* pcdThreadJoin calls on its descriptor
WorkerCall(phase, height) ==
  [ phase |-> phase, height |-> height, pc |-> "start", thread |-> 0,
    endRow  |-> [t \in 0 .. kNumThreads - 1 |-> 0],
    at      |-> [t \in 0 .. kNumThreads - 1 |-> "idle"],
    started |-> [t \in 0 .. kNumThreads - 1 |-> FALSE],
    joins   |-> [t \in 0 .. kNumThreads - 1 |-> 0],
    freed   |-> FALSE ]

\* the body of the first loop for a band but the last: pcdStartThread
\* returns 0 (ok) or not
StartWorker(ok) ==
  /\ workers.pc = "start" /\ workers.thread < kNumThreads - 1
  /\ workers' =
       LET t == workers.thread
           e == bandEndRow(workers.height, t)
       IN  IF ok
           THEN [workers EXCEPT !.endRow[t] = e, !.at[t] = "running",
                                !.started[t] = TRUE, !.thread = t + 1]
           ELSE [workers EXCEPT !.endRow[t] = endRowAfterFailedStart(e),
                                !.at[t] = "inline", !.thread = t + 1]
  /\ UNCHANGED << decoder, image, readBuf, pixel, huff, walk, heap >>

\* the body of the first loop for the last band, then the entry of the
\* join loop
RunLastBand ==
  /\ workers.pc = "start" /\ workers.thread = kNumThreads - 1
  /\ workers' = [workers EXCEPT
                   !.endRow[kNumThreads - 1] = bandEndRow(workers.height, kNumThreads - 1),
                   !.at[kNumThreads - 1] = "inline",
                   !.pc = "join", !.thread = 0]
  /\ UNCHANGED << decoder, image, readBuf, pixel, huff, walk, heap >>

\* the thread function of band t returns
WorkerFinishes(t) ==
  /\ workers.at[t] = "running"
  /\ workers' = [workers EXCEPT !.at[t] = "finished"]
  /\ UNCHANGED << decoder, image, readBuf, pixel, huff, walk, heap >>

\* the body of the join loop: pcdThreadJoin returns once the thread has
\* finished; on a descriptor that was never started it returns at once
JoinWorker ==
  /\ workers.pc = "join" /\ workers.thread < kNumThreads - 1
  /\ LET t == workers.thread
     IN  IF needsJoin(workers.endRow[t])
         THEN /\ workers.at[t] # "running"
              /\ workers' = [workers EXCEPT
                               !.joins[t] = workers.joins[t] + 1,
                               !.at[t] = IF workers.at[t] = "finished" THEN "joined"
                                         ELSE workers.at[t],
                               !.thread = t + 1]
         ELSE workers' = [workers EXCEPT !.thread = t + 1]
  /\ UNCHANGED << decoder, image, readBuf, pixel, huff, walk, heap >>

\* after the join loop: populateBuffers frees c1UpRes and c2UpRes, the
\* caller of upResBuffer (postParse) frees the previous plane
FreeAndReturn ==
  /\ workers.pc = "join" /\ workers.thread = kNumThreads - 1
  /\ workers' = [workers EXCEPT !.pc = "returned", !.freed = TRUE]
  /\ UNCHANGED << decoder, image, readBuf, pixel, huff, walk, heap >>

NextWorkers ==
  \/ \E ok \in BOOLEAN : StartWorker(ok)
  \/ RunLastBand
  \/ \E t \in 0 .. kNumThreads - 2 : WorkerFinishes(t)
  \/ JoinWorker
  \/ FreeAndReturn

\* the calls: upResBuffer on the planes postParse and populateBuffers hand
\* it, populateBuffers on the luma plane of a level
WorkerCalls ==
  { WorkerCall("upResBuffer", h) :
      h \in { PCDLumaHeight[s] : s \in 1 .. 6 } \cup { PCDChromaHeight[s] : s \in 2 .. 6 } }
  \cup { WorkerCall("populateBuffers", PCDLumaHeight[s]) : s \in 1 .. 6 }

InitWorkers ==
  /\ InitMembers
  /\ lastCall = [op |-> "constructor", ret |-> "true", obs |-> NULL]
  /\ postParsed = FALSE /\ monoTrace = "none" /\ tempLive = 0
  /\ image = NULL /\ readBuf = NULL /\ pixel = NULL
  /\ huff = NULL /\ walk = NULL /\ heap = NULL
  /\ workers \in WorkerCalls

SpecWorkers == InitWorkers /\ [][NextWorkers]_vars


(***************************************************************************)
(* readHuffTable: one Huffman table built from the entries of a file,      *)
(* observed on a sample of the 65536 slots                                 *)
(***************************************************************************)

\* the 16 bits of a slot index or of a code word field, most significant first
Bits16(n) == [i \in 1 .. 16 |-> (n \div (2 ^ (16 - i))) % 2]

\* the slots observed
Codes == { Bits16(n) : n \in {0, 16384, 32768, 32769, 49152, 49153, 57344, 57345, 65535} }

\* the tables built have at most this many entries
MaxEntries == 3

\* entries as they may stand in a file: len is the length byte + 1, codeWord
\* the 16-bit code word field, key the symbol
HuffEntries ==
  { [len |-> 1, codeWord |-> Bits16(0), key |-> 0],
    [len |-> 2, codeWord |-> Bits16(32768), key |-> 1],
    [len |-> 3, codeWord |-> Bits16(49152), key |-> 255],
    [len |-> 2, codeWord |-> Bits16(49152), key |-> 9],
    [len |-> 16, codeWord |-> Bits16(57345), key |-> 7],
    [len |-> 1, codeWord |-> Bits16(32769), key |-> 5],
    [len |-> 17, codeWord |-> Bits16(0), key |-> 3] }

HuffTables ==
  UNION { [1 .. n -> HuffEntries] : n \in 1 .. MaxEntries }

\* the slot a table is filled with before the entries are expanded
errorSlot == [len |-> kHuffmanErrorLen, key |-> 127]

\* the loop body of readHuffTable for one entry, on the slots observed
expandEntry(table, e) ==
  [c \in Codes |-> IF entrySets(e, c) THEN [len |-> e.len, key |-> e.key]
                   ELSE table[c]]

\* the call starts: *number is set and every slot is filled with the error slot
HuffFill ==
  /\ huff # NULL /\ huff.pc = "call"
  /\ huff' = [huff EXCEPT !.pc = "entries", !.i = 0,
                          !.table = [c \in Codes |-> errorSlot]]
  /\ UNCHANGED << decoder, image, workers, readBuf, pixel, walk, heap >>

\* one entry: a length above 16 throws, any other is expanded
HuffEntry ==
  /\ huff # NULL /\ huff.pc = "entries" /\ huff.i < Len(huff.entries)
  /\ LET e == huff.entries[huff.i + 1]
     IN  huff' = IF e.len > 16 THEN [huff EXCEPT !.pc = "threw"]
                 ELSE [huff EXCEPT !.i = huff.i + 1,
                                   !.table = expandEntry(huff.table, e)]
  /\ UNCHANGED << decoder, image, workers, readBuf, pixel, walk, heap >>

\* the loop ends and the function returns
HuffReturn ==
  /\ huff # NULL /\ huff.pc = "entries" /\ huff.i = Len(huff.entries)
  /\ huff' = [huff EXCEPT !.pc = "built"]
  /\ UNCHANGED << decoder, image, workers, readBuf, pixel, walk, heap >>

NextHuff == HuffFill \/ HuffEntry \/ HuffReturn

InitHuff ==
  /\ InitMembers
  /\ lastCall = [op |-> "constructor", ret |-> "true", obs |-> NULL]
  /\ postParsed = FALSE /\ monoTrace = "none" /\ tempLive = 0
  /\ image = NULL /\ workers = NULL /\ readBuf = NULL /\ pixel = NULL
  /\ walk = NULL /\ heap = NULL
  /\ huff \in { [pc |-> "call", entries |-> t, i |-> 0, table |-> NULL] :
                t \in HuffTables }

SpecHuff == InitHuff /\ [][NextHuff]_vars

(***************************************************************************)
(* parseICFile: the walk over the pointer array of one 64Base layer        *)
(***************************************************************************)

\* the pointer arrays walked have at most this many entries
MaxPointers == 4

\* the file numbers of the entries
FileNumbers == 0 .. 2

\* pointer arrays: entry j names a file and, in it, the offset of its sequence
PointerArrays ==
  UNION { { [j \in 1 .. n |-> [fno |-> f[j], offset |-> KSectorSize * j]] :
              f \in [1 .. n -> FileNumbers] } : n \in 1 .. MaxPointers }

\* the walk of a layer whose description gives Len(pointers) sequences
WalkCall(pointers) ==
  [ pc |-> "layer", pointers |-> pointers, numSequences |-> Len(pointers),
    entry |-> 1, sequence |-> 0, currentFile |-> 0, startPoint |-> 0,
    calls |-> << >> ]

\* the layer starts: currentFile and startPoint are those of the first entry
WalkStart ==
  /\ walk # NULL /\ walk.pc = "layer"
  /\ walk' = [walk EXCEPT !.pc = "loop", !.sequence = 0,
                          !.currentFile = walk.pointers[1].fno,
                          !.startPoint = walk.pointers[1].offset]
  /\ UNCHANGED << decoder, image, workers, readBuf, pixel, huff, heap >>

\* one iteration of the while loop: at a change of file, and at the last
\* entry, the file walked so far is opened and handed to readPCDDeltas
\* (ok: it was opened and decoded without a throw)
WalkEntry(ok) ==
  /\ walk # NULL /\ walk.pc = "loop" /\ walk.numSequences > 0
  /\ LET numSequences == walk.numSequences - 1
         sequence     == walk.sequence + 1
         entry        == walk.pointers[walk.entry]
     IN  IF walk.currentFile # entry.fno \/ numSequences = 0
         THEN walk' =
                IF ~ok THEN [walk EXCEPT !.pc = "threw"]
                ELSE [ walk EXCEPT
                         !.numSequences = numSequences,
                         !.calls = Append(walk.calls,
                                          [ file |-> walk.currentFile,
                                            startPoint |-> walk.startPoint,
                                            sequencesToProcess |-> sequence - 1 ]),
                         !.currentFile = entry.fno,
                         !.startPoint = entry.offset,
                         !.sequence = 0,
                         !.entry = walk.entry + 1 ]
         ELSE /\ ok
              /\ walk' = [ walk EXCEPT !.numSequences = numSequences,
                                       !.sequence = sequence,
                                       !.entry = walk.entry + 1 ]
  /\ UNCHANGED << decoder, image, workers, readBuf, pixel, huff, heap >>

\* the while loop ends
WalkEnd ==
  /\ walk # NULL /\ walk.pc = "loop" /\ walk.numSequences = 0
  /\ walk' = [walk EXCEPT !.pc = "end"]
  /\ UNCHANGED << decoder, image, workers, readBuf, pixel, huff, heap >>

NextWalk == WalkStart \/ (\E ok \in BOOLEAN : WalkEntry(ok)) \/ WalkEnd

InitWalk ==
  /\ InitMembers
  /\ lastCall = [op |-> "constructor", ret |-> "true", obs |-> NULL]
  /\ postParsed = FALSE /\ monoTrace = "none" /\ tempLive = 0
  /\ image = NULL /\ workers = NULL /\ readBuf = NULL /\ pixel = NULL
  /\ huff = NULL /\ heap = NULL
  /\ walk \in { WalkCall(p) : p \in PointerArrays }

SpecWalk == InitWalk /\ [][NextWalk]_vars

(***************************************************************************)
(* The ownership of the plane and delta buffers: the three plane pointers, *)
(* the nine delta slots and the set of buffers that are allocated.  A      *)
(* pointer is the address of its buffer, 0 for NULL.                       *)
(***************************************************************************)

\* the addresses malloc may return
Addresses == 1 .. 16

\* the pointers of an instance: the planes, and deltas[i][j]
lumaSlot == <<"luma", 0, 0>>
chroma1Slot == <<"chroma1", 0, 0>>
chroma2Slot == <<"chroma2", 0, 0>>
deltaSlot(i, j) == <<"deltas", i, j>>

slotValue(h, s) ==
  IF s[1] = "luma" THEN h.luma
  ELSE IF s[1] = "chroma1" THEN h.chroma1
  ELSE IF s[1] = "chroma2" THEN h.chroma2
  ELSE h.deltas[s[2] + 1][s[3] + 1]

setSlot(h, s, p) ==
  IF s[1] = "luma" THEN [h EXCEPT !.luma = p]
  ELSE IF s[1] = "chroma1" THEN [h EXCEPT !.chroma1 = p]
  ELSE IF s[1] = "chroma2" THEN [h EXCEPT !.chroma2 = p]
  ELSE [h EXCEPT !.deltas[s[2] + 1][s[3] + 1] = p]

\* s = malloc(...): a buffer that is not allocated, or NULL when ok is false
mallocSlot(h, s, ok) ==
  IF ~ok THEN setSlot(h, s, 0)
  ELSE LET p == CHOOSE a \in Addresses \ h.live :
                  \A b \in Addresses \ h.live : a <= b
       IN  [setSlot(h, s, p) EXCEPT !.live = h.live \cup {p}]

\* free(s): freeing a buffer that is not allocated is recorded in doubleFree
freeSlot(h, s) ==
  LET p == slotValue(h, s)
  IN  IF p = 0 THEN h
      ELSE IF p \notin h.live THEN [h EXCEPT !.doubleFree = TRUE]
      ELSE [h EXCEPT !.live = h.live \ {p}]

\* if (s != NULL) { free(s); s = NULL; } for each of the slots in turn
RECURSIVE freeAndClear(_, _)
freeAndClear(h, slots) ==
  IF slots = << >> THEN h
  ELSE CHOOSE r \in { freeAndClear(g, Tail(slots)) :
                        g \in {setSlot(freeSlot(h, Head(slots)), Head(slots), 0)} } : TRUE

\* pcdFreeAll on the pointers
freeAllSlots(h) ==
  [ freeAndClear(h, << lumaSlot, chroma1Slot, chroma2Slot,
                       deltaSlot(0, 0), deltaSlot(0, 1), deltaSlot(0, 2),
                       deltaSlot(1, 0), deltaSlot(1, 1), deltaSlot(1, 2),
                       deltaSlot(2, 0), deltaSlot(2, 1), deltaSlot(2, 2) >>)
    EXCEPT !.header = FALSE ]

\* variant of the buffer swap of postParse that leaves the delta slot set
adoptBufferKeepingSlot(h, plane, slot) ==
  setSlot(freeSlot(h, plane), plane, slotValue(h, slot))

\* the buffer swap of postParse: free(plane); plane = slot; slot = NULL
adoptBuffer(h, plane, slot) ==
  setSlot(setSlot(freeSlot(h, plane), plane, slotValue(h, slot)), slot, 0)

\* readBaseImage: one attempt per outcome, from kBase down.  An attempt
\* allocates the three planes ("nomem1", "nomem2", "nomem3": the first, second
\* or third malloc returns NULL); unless its outcome is "ok" it throws and
\* the handler frees what was allocated.  Result: the pointers and the level
\* read, -1 if none
RECURSIVE readBaseSlots(_, _, _)
readBaseSlots(h, outcomes, scene0) ==
  IF outcomes = << >> \/ scene0 < kBase16 THEN [h |-> h, scene |-> -1]
  ELSE LET o  == Head(outcomes)
           h1 == mallocSlot(h, lumaSlot, o # "nomem1")
           h2 == mallocSlot(h1, chroma1Slot, o # "nomem2")
           h3 == mallocSlot(h2, chroma2Slot, o # "nomem3")
       IN  IF o = "ok" THEN [h |-> h3, scene |-> scene0]
           ELSE CHOOSE r \in
                  { readBaseSlots(g, Tail(outcomes), scene0 - 1) :
                      g \in {freeAndClear(h3, <<lumaSlot, chroma1Slot, chroma2Slot>>)} } :
                  TRUE

\* parseICFile: it fails before the delta buffers are allocated
\* ("failEarly"), or after ("failLate1", "failLate3": one or three layers),
\* or succeeds ("ok1", "ok3"); a failure frees the buffers of the level
parseICSlots(h, b64) ==
  LET three == b64 \in {"failLate3", "ok3"}
      h1 == mallocSlot(h, deltaSlot(2, 0), TRUE)
      h2 == IF three THEN mallocSlot(mallocSlot(h1, deltaSlot(2, 1), TRUE),
                                     deltaSlot(2, 2), TRUE)
            ELSE h1
      level == <<deltaSlot(2, 0), deltaSlot(2, 1), deltaSlot(2, 2)>>
  IN  IF b64 = "failEarly" THEN [h |-> freeAndClear(h, level), scene |-> k16Base]
      ELSE IF b64 \in {"failLate1", "failLate3"}
      THEN [h |-> freeAndClear(h2, level), scene |-> k16Base]
      ELSE [h |-> h2, scene |-> k64Base]

\* the 16Base block of parseFile: the tables cannot be read ("throwEarly"),
\* the first chroma delta cannot be allocated ("nomemChroma"), the deltas
\* cannot be decoded ("throwLate"), or all is read ("ok"); a throw frees the
\* buffers of the level
parse16BaseSlots(h, scene0, b16, mono, b64) ==
  LET h1 == mallocSlot(h, deltaSlot(1, 0), TRUE)
      h2 == IF mono THEN h1
            ELSE mallocSlot(mallocSlot(h1, deltaSlot(1, 1), b16 # "nomemChroma"),
                            deltaSlot(1, 2), TRUE)
      level == <<deltaSlot(1, 0), deltaSlot(1, 1), deltaSlot(1, 2)>>
  IN  IF b16 = "throwEarly" THEN [h |-> freeAndClear(h, level), scene |-> k4Base]
      ELSE IF b16 = "throwLate" THEN [h |-> freeAndClear(h2, level), scene |-> k4Base]
      ELSE IF scene0 >= k64Base THEN parseICSlots(h2, b64)
      ELSE [h |-> h2, scene |-> scene0]

\* the 4Base block of parseFile: the Huffman tables cannot be allocated
\* ("noTables") or read ("throwEarly"), the deltas cannot be decoded
\* ("throwLate"), or all is read ("ok"); a throw frees deltas[0][0]
parse4BaseSlots(h, scene0, b4, b16, mono, b64) ==
  LET h1 == mallocSlot(h, deltaSlot(0, 0), TRUE)
  IN  IF b4 = "noTables" THEN [h |-> h, scene |-> scene0]
      ELSE IF b4 = "throwEarly"
      THEN [h |-> freeAndClear(h, <<deltaSlot(0, 0)>>), scene |-> kBase]
      ELSE IF b4 = "throwLate"
      THEN [h |-> freeAndClear(h1, <<deltaSlot(0, 0)>>), scene |-> kBase]
      ELSE IF scene0 >= k16Base
      THEN parse16BaseSlots(h1, scene0, b16, mono, b64)
      ELSE [h |-> h1, scene |-> scene0]

\* parseFile on the pointers; early: it returns false before the base image
\* is read.  baseScene is unsigned, so a base image that cannot be read at
\* any level does not end the call
parseFileSlots(h, early, sNum, base, b4, b16, b64) ==
  LET afterBase(rb) ==
        LET scene == IF rb.scene >= 0 /\ rb.scene < kBase THEN rb.scene ELSE sNum
            d == IF scene >= k4Base
                 THEN parse4BaseSlots(rb.h, scene, b4, b16, h.monochrome, b64)
                 ELSE [h |-> rb.h, scene |-> scene]
        IN  [d.h EXCEPT !.sceneNumber = d.scene]
      afterFree(h0) ==
        IF early THEN h0
        ELSE CHOOSE r \in
               { afterBase(rb) :
                   rb \in {readBaseSlots([h0 EXCEPT !.header = TRUE], base,
                                         pcdMin(sNum, kBase))} } : TRUE
  IN  CHOOSE r \in { afterFree(h0) : h0 \in {freeAllSlots(h)} } : TRUE

\* one iteration of the loop of postParse; memory says which of the chroma
\* mallocs succeed.  upResBuffer reads through the plane without a NULL test
postParseLevelSlots(h, i, memory) ==
  LET h1 == adoptBuffer(h, lumaSlot, deltaSlot(i, 0))
      h2 == IF slotValue(h1, deltaSlot(i, 1)) = 0
            THEN mallocSlot(h1, deltaSlot(i, 1), memory # "c1fails") ELSE h1
      h3 == IF slotValue(h2, deltaSlot(i, 1)) # 0
            THEN adoptBuffer(h2, chroma1Slot, deltaSlot(i, 1)) ELSE h2
      h4 == IF slotValue(h3, deltaSlot(i, 2)) = 0
            THEN mallocSlot(h3, deltaSlot(i, 2), memory # "c2fails") ELSE h3
      h5 == IF slotValue(h4, deltaSlot(i, 2)) # 0
            THEN adoptBuffer(h4, chroma2Slot, deltaSlot(i, 2)) ELSE h4
  IN  IF slotValue(h, deltaSlot(i, 0)) = 0 THEN h
      ELSE IF h.luma = 0 \/ h.chroma1 = 0 \/ h.chroma2 = 0
      THEN [h EXCEPT !.pc = "crashed"]
      ELSE h5

RECURSIVE postParseSlots(_, _, _)
postParseSlots(h, i, memory) ==
  IF i > 2 \/ h.pc = "crashed" THEN h
  ELSE CHOOSE r \in { postParseSlots(g, i + 1, memory) :
                        g \in {postParseLevelSlots(h, i, memory)} } : TRUE

BaseOutcomes ==
  { <<"ok">>, <<"short", "ok">>, <<"nomem2", "ok">>, <<"nomem1", "short", "ok">>,
    <<"short", "short", "short">>, <<"nomem3", "short", "nomem1">> }

\* the pointers after the constructor
HeapConstructed ==
  [ pc |-> "idle", luma |-> 0, chroma1 |-> 0, chroma2 |-> 0,
    deltas |-> << <<0, 0, 0>>, <<0, 0, 0>>, <<0, 0, 0>> >>,
    live |-> {}, header |-> FALSE, sceneNumber |-> kBase, monochrome |-> FALSE,
    last |-> "constructor", doubleFree |-> FALSE ]

HeapParseFile(early, sNum, base, b4, b16, b64) ==
  /\ heap # NULL /\ heap.pc = "idle"
  /\ heap' = [parseFileSlots(heap, early, sNum, base, b4, b16, b64)
                EXCEPT !.last = "parseFile"]
  /\ UNCHANGED << decoder, image, workers, readBuf, pixel, huff, walk >>

HeapPostParse(memory) ==
  /\ heap # NULL /\ heap.pc = "idle"
  /\ heap' = [(IF ~heap.header THEN heap ELSE postParseSlots(heap, 0, memory))
                EXCEPT !.last = "postParse"]
  /\ UNCHANGED << decoder, image, workers, readBuf, pixel, huff, walk >>

\* setIsMonoChrome(val): monochrome = monochrome | val
HeapSetIsMonoChrome(val) ==
  /\ heap # NULL /\ heap.pc = "idle"
  /\ heap' = [heap EXCEPT !.monochrome = heap.monochrome \/ val,
                          !.last = "setIsMonoChrome"]
  /\ UNCHANGED << decoder, image, workers, readBuf, pixel, huff, walk >>

\* the destructor
HeapDestroy ==
  /\ heap # NULL /\ heap.pc = "idle"
  /\ heap' = [freeAllSlots(heap) EXCEPT !.pc = "destroyed"]
  /\ UNCHANGED << decoder, image, workers, readBuf, pixel, huff, walk >>

NextHeap ==
  \/ HeapParseFile(TRUE, kBase, <<"ok">>, "ok", "ok", "ok1")
  \/ \E early \in {FALSE}, sNum \in kBase .. k64Base, base \in BaseOutcomes,
        b4 \in {"noTables", "throwEarly", "throwLate", "ok"},
        b16 \in {"throwEarly", "nomemChroma", "throwLate", "ok"},
        b64 \in {"failEarly", "failLate1", "failLate3", "ok1", "ok3"} :
       HeapParseFile(early, sNum, base, b4, b16, b64)
  \/ \E val \in BOOLEAN : HeapSetIsMonoChrome(val)
  \/ \E memory \in {"all", "c1fails", "c2fails"} : HeapPostParse(memory)
  \/ HeapDestroy

InitHeap ==
  /\ InitMembers
  /\ lastCall = [op |-> "constructor", ret |-> "true", obs |-> NULL]
  /\ postParsed = FALSE /\ monoTrace = "none" /\ tempLive = 0
  /\ image = NULL /\ workers = NULL /\ readBuf = NULL /\ pixel = NULL
  /\ huff = NULL /\ walk = NULL
  /\ heap = HeapConstructed

SpecHeap == InitHeap /\ [][NextHeap]_vars
(***************************************************************************)
(* Properties                                                              *)
(***************************************************************************)

\* the luma plane is allocated with the dimensions of level s
LumaAtLevel(s) ==
  /\ luma # NULL
  /\ luma.w = PCDLumaWidth[s + 1]
  /\ luma.h = PCDLumaHeight[s + 1]

\* C1: parseFile returns true only if a base image was read.  When no level
\* from min(requested, Base) down to Base16 can be read in full, it returns
\* false with the error "No valid base image could be found"; whenever it
\* returns true the luma plane is allocated at some level in Base16..Base
\* (before postParse).
C1_TrueOnlyIfBaseRead ==
  (lastCall.op = "parseFile" /\ lastCall.obs.cause \in {"none", "nobase"}) =>
    /\ lastCall.obs.best = -1 =>
         /\ lastCall.ret = "false"
         /\ errorString = "No valid base image could be found"
    /\ lastCall.ret = "true" => \E s \in kBase16 .. kBase : LumaAtLevel(s)

\* C2: if parseFile returns true then Base16 <= actual level <= requested
\* level, and when the native class of the file is below SixteenBase the
\* actual level is also <= the native class.
C2_LevelWithinRequest ==
  (lastCall.op = "parseFile" /\ lastCall.ret = "true") =>
    /\ kBase16 <= sceneNumber
    /\ sceneNumber <= lastCall.obs.sNum
    /\ lastCall.obs.native < k16Base => sceneNumber <= lastCall.obs.native

\* a request above the native class of a 4Base file ends at 4Base
C2_Witness ==
  /\ lastCall.op = "parseFile" /\ lastCall.ret = "true"
  /\ lastCall.obs.sNum = k64Base
  /\ lastCall.obs.native = k4Base
  /\ sceneNumber = k4Base

\* C3: when the tables or the delta stream of FourBase or SixteenBase do
\* not decode, parseFile returns true, the actual level is one below the
\* failing level, every delta slot of the failing level is NULL, and the
\* FourBase delta that decoded before a SixteenBase failure is kept.
C3_DowngradeOneLevel ==
  lastCall.op = "parseFile" =>
    /\ lastCall.obs.failed = {k4Base} =>
         /\ lastCall.ret = "true"
         /\ sceneNumber = kBase
         /\ deltas[k4Base - k4Base + 1] = <<NULL, NULL, NULL>>
    /\ lastCall.obs.failed = {k16Base} =>
         /\ lastCall.ret = "true"
         /\ sceneNumber = k4Base
         /\ deltas[k16Base - k4Base + 1] = <<NULL, NULL, NULL>>
         /\ deltas[k4Base - k4Base + 1][1] # NULL
         /\ deltas[k4Base - k4Base + 1][1].w = PCDLumaWidth[k4Base + 1]

\* an invalid plane tag in the SixteenBase stream of a SixtyFourBase request
C3_Witness ==
  /\ lastCall.op = "parseFile"
  /\ lastCall.obs.file.s16 = "badplane"
  /\ lastCall.obs.failed = {k16Base}
  /\ sceneNumber = k4Base

\* the companion set of the call cannot be processed
CompanionFails(ipe) == ipe.path # "ok" \/ ipe.kind # "ok"

\* C4: any failure while processing the 64Base companion set makes
\* parseFile return true at SixteenBase with the three 64Base delta slots
\* NULL and the SixteenBase result intact; no crash escapes.
C4_CompanionFailureDowngrades ==
  (lastCall.op = "parseFile" /\ lastCall.obs.icCalled /\ CompanionFails(lastCall.obs.ipe)) =>
    /\ lastCall.ret = "true"
    /\ sceneNumber = k16Base
    /\ deltas[k64Base - k4Base + 1] = <<NULL, NULL, NULL>>
    /\ deltas[k16Base - k4Base + 1][1] # NULL
    /\ deltas[k4Base - k4Base + 1][1] # NULL
    /\ LumaAtLevel(kBase)

\* the messages of the decoder that contain the text "64Base"
Mentions64Base(msg) ==
  msg \in { "Could not open 64Base IPE file", "Could not read 64Base IPE file",
            "Could not open 64Base extension image",
            "Error while processing 64Base image" }

\* C5: whenever parseFile returns true after a downgrade, getErrorString
\* is non-empty, and when the failing level is SixtyFourBase the text
\* mentions 64Base.
C5_WarningAfterDowngrade ==
  (lastCall.op = "parseFile" /\ lastCall.ret = "true" /\ lastCall.obs.failed # {}) =>
    /\ errorString # ""
    /\ k64Base \in lastCall.obs.failed => Mentions64Base(errorString)

\* the four fatal cases: open, short header, signature, interleaved audio
FatalCauses == {"open", "short", "sig", "audio"}

\* C6: in each of the four fatal cases parseFile returns false with a
\* non-empty error string and leaves header and planes NULL, and a
\* postParse or populate call that follows returns having changed nothing
\* and written nothing.
C6_FatalLeavesNoFile ==
  [][ /\ (lastCall'.op = "parseFile" /\ lastCall'.obs.cause \in FatalCauses) =>
           /\ lastCall'.ret = "false"
           /\ errorString' # "" /\ errorString' # IndetString
           /\ pcdFileHeader' = NULL
           /\ luma' = NULL /\ chroma1' = NULL /\ chroma2' = NULL
      /\ ( /\ lastCall.op = "parseFile" /\ lastCall.obs.cause \in FatalCauses
           /\ PostParse \/ Populate ) =>
           /\ lastCall'.ret = "true"
           /\ UNCHANGED members
           /\ lastCall'.op = "populate" => lastCall'.obs.out = NULL
    ]_vars

\* C7: the base reader returns the highest level <= min(requested, Base)
\* whose planes can be read in full; when that is Base4 although Base or
\* more was requested, parseFile returns true at Base4 with planes of Base4
\* dimensions and no delta buffer.
C7_HighestReadableBase ==
  (lastCall.op = "parseFile" /\ lastCall.obs.cause \in {"none", "nobase"}
     /\ lastCall.obs.best # -1) =>
    /\ baseScene = ToUnsigned(lastCall.obs.best)
    /\ lastCall.ret # "crash" => LumaAtLevel(lastCall.obs.best)
    /\ (lastCall.obs.best = kBase4 /\ lastCall.obs.sNum >= kBase) =>
         /\ lastCall.ret = "true"
         /\ sceneNumber = kBase4
         /\ LumaAtLevel(kBase4)
         /\ chroma1 = Buffer(PCDChromaWidth[kBase4 + 1], PCDChromaHeight[kBase4 + 1],
                             lastCall.obs.file.c1)
         /\ chroma2 = Buffer(PCDChromaWidth[kBase4 + 1], PCDChromaHeight[kBase4 + 1],
                             lastCall.obs.file.c2)
         /\ deltas = NoDeltas

\* the file ends before the Base planes and SixtyFourBase was requested
C7_Witness ==
  /\ lastCall.op = "parseFile" /\ lastCall.ret = "true"
  /\ lastCall.obs.file.sectors = 95
  /\ lastCall.obs.sNum = k64Base
  /\ lastCall.obs.best = kBase4
  /\ sceneNumber = kBase4

\* C8: postParse changes nothing when no file is loaded, and a postParse
\* directly after a postParse leaves planes, level and delta slots as the
\* first call left them.
C8_PostParseIdempotent ==
  [][ PostParse =>
        /\ pcdFileHeader = NULL => UNCHANGED members
        /\ (lastCall.op = "postParse" /\ pcdFileHeader # NULL) =>
             /\ lastCall'.ret = "true"
             /\ UNCHANGED << luma, chroma1, chroma2, sceneNumber, deltas >>
    ]_vars

\* a second postParse on a SixteenBase image assembled by the first
C8_Witness ==
  /\ lastCall.op = "postParse" /\ lastCall.ret = "true"
  /\ lastCall.obs.after = "postParse"
  /\ pcdFileHeader # NULL
  /\ sceneNumber = k16Base
  /\ LumaAtLevel(k16Base)
  /\ deltas = NoDeltas

\* C9: a populate call leaves every member unchanged and has freed its
\* temporary chroma buffers when it returns, and a populate call directly
\* after one with the same format writes the same values.
C9_PopulatePure ==
  [][ (Populate /\ lastCall'.ret = "true") =>
        /\ UNCHANGED members
        /\ tempLive' = 0
        /\ ( /\ lastCall.op = "populate"
             /\ lastCall.obs.dataSize = lastCall'.obs.dataSize
             /\ lastCall.obs.alpha = lastCall'.obs.alpha ) =>
             lastCall'.obs.out = lastCall.obs.out
    ]_vars

\* C10: after parseFile and postParse, setIsMonoChrome(true) followed by
\* setIsMonoChrome(false) and populate writes what populate writes on the
\* same instance with the monochrome flag never set.
C10_MonoChromeClears ==
  [][ ( /\ Populate
        /\ pcdFileHeader # NULL
        /\ monoTrace = "true,false"
        /\ populateCase([self EXCEPT !.monochrome = FALSE]) = "convert" ) =>
        /\ lastCall'.ret = "true"
        /\ lastCall'.obs.out =
             populateBuffers([self EXCEPT !.monochrome = FALSE],
                             lastCall'.obs.alpha, lastCall'.obs.dataSize)
    ]_vars


\* C11: when monochrome is set, a populate call on an assembled image
\* returns and writes what it writes for any other chroma content: the
\* chroma planes are not read, in every colour space.
C11_MonochromeIgnoresChroma ==
  [][ ( /\ Populate
        /\ pcdFileHeader # NULL
        /\ monochrome
        /\ luma # NULL /\ chroma1 # NULL /\ chroma2 # NULL
        /\ populateReadsInBounds(self) ) =>
        /\ lastCall'.ret = "true"
        /\ lastCall'.obs.out =
             populateBuffers([self EXCEPT !.chroma1.v = 0, !.chroma2.v = 0],
                             lastCall'.obs.alpha, lastCall'.obs.dataSize)
    ]_vars

\* what populate writes when the planes as parsed are assembled by postParse
\* under the constructor's settings and the settings of im are made afterwards
SettersAfterPostParse(im) ==
  LET asm == postParsePlanes([ im EXCEPT !.luma = im.parsed.luma,
                                         !.chroma1 = im.parsed.chroma1,
                                         !.chroma2 = im.parsed.chroma2,
                                         !.deltas = im.parsed.deltas,
                                         !.upResMethod = Constructed.upResMethod ],
                             ImageWidth, ImageHeight)
  IN  populatePlanes([asm EXCEPT !.upResMethod = im.upResMethod], ImageWidth, ImageHeight)

Rotation3Populated ==
  /\ lastCall.op = "populate" /\ lastCall.ret = "true"
  /\ lastCall.obs.out # NULL
  /\ imageRotate = 3
  /\ sceneNumber = kBase16

\* C13 as stated: with rotation 3 and a 192 x 128 level, getWidth() is 128,
\* getHeight() is 192 and the source pixel of row 0, column 0 is stored at
\* row getHeight() - 1, column 0 of the output raster.
C13_Rotation3AsStated ==
  Rotation3Populated =>
    /\ getWidth(self) = 128
    /\ getHeight(self) = 192
    /\ lastCall.obs.origin = (getHeight(self) - 1) * getWidth(self) + 0

\* C13 amended: with rotation 3 and a 192 x 128 level, getWidth() is 128,
\* getHeight() is 192 and the source pixel of row 0, column 0 is stored at
\* row 0, column getWidth() - 1 of the output raster (index H - 1 with H the
\* source height).
C13_Rotation3 ==
  Rotation3Populated =>
    /\ getWidth(self) = 128
    /\ getHeight(self) = 192
    /\ lastCall.obs.origin = 0 * getWidth(self) + (getWidth(self) - 1)
    /\ lastCall.obs.origin = PCDLumaHeight[kBase16 + 1] - 1

C13_Witness ==
  /\ Rotation3Populated
  /\ lastCall.obs.origin = 127
  /\ lastCall.obs.out.width = 128 /\ lastCall.obs.out.height = 192

\* every entry of the two conversion tables is a valid index of the next table
TablesInRange ==
  /\ Len(toLinearLight) = numLUTItems /\ Len(CCIR709tosRGB) = numLUTItems
  /\ Len(uint8Output) = numLUTItems /\ Len(uint16Output) = numLUTItems
  /\ Len(floatOutput) = numLUTItems
  /\ \A i \in 1 .. numLUTItems :
       /\ toLinearLight[i] \in 0 .. numLUTItems - 1
       /\ CCIR709tosRGB[i] \in 0 .. numLUTItems - 1
       /\ uint8Output[i] \in 0 .. 255
       /\ uint16Output[i] \in 0 .. 65535
       /\ floatOutput[i] \in 0 .. 1000000

\* C14: for every pixel, colour space, white balance and monochrome
\* setting the three LUT indices of a converted pixel lie in 0..1388 and
\* the components written lie in the range of their format (floats are
\* scaled by 10^6).
C14_IndicesInRange ==
  /\ TablesInRange
  /\ (pixel # NULL /\ pixel.ret = "true") =>
       /\ \A k \in 1 .. 3 :
            /\ pixel.idx[k] \in 0 .. 1388
            /\ pixel.out.u8[k] \in 0 .. 255
            /\ pixel.out.u16[k] \in 0 .. 65535
            /\ pixel.out.f32[k] \in 0 .. 1000000

\* a pixel in linear CCIR709 with D50 whose blue channel leaves the matrix
\* above the table (toLinearLight ends at 1387) and is pinned to 1388
C14_Witness ==
  /\ pixel # NULL /\ pixel.ret = "true"
  /\ pixel.in.colorSpace = kPCDLinearCCIR709ColorSpace
  /\ pixel.in.whiteBalance = kPCDD50White
  /\ pixel.idx[3] = 1388

\* bit k of the stream, counted from its first bit, most significant bit of
\* each byte first
FileBit(f, k) == ByteBits(FileByte(f, k \div 8))[(k % 8) + 1]

\* the accumulator holds 25 to 32 bits and they are the next unread bits
\* of the file
AccumulatorHoldsStream(b) ==
  /\ b.bits \in 25 .. 32
  /\ b.consumed + b.bits <= 8 * b.file.len
  /\ \A i \in 1 .. b.bits : b.sum[i] = FileBit(b.file, b.consumed + i - 1)

\* C18: after initReadBuffer and after every PCDGetBits that returns, the
\* accumulator holds 25 to 32 valid bits and they are the next unread bits
\* of the stream, most significant first.
C18_AccumulatorHoldsStream ==
  (readBuf # NULL /\ readBuf.pc \notin {"new", "eof"}) => AccumulatorHoldsStream(readBuf.b)


\* syncHuffman returns in this step
SyncReturns == SyncHuffmanStep /\ readBuf.pc = "sync2" /\ readBuf'.pc = readBuf.ret

\* the 24 bits of the file from bit k on are the marker 0xFFFFFE
MarkerAt(f, k) ==
  /\ k + 24 <= 8 * f.len
  /\ \A j \in 0 .. 22 : FileBit(f, k + j) = 1
  /\ FileBit(f, k + 23) = 0

\* C15: the Huffman stage ends on every stream: readPCDDeltas returns, or
\* it throws the end-of-file or the corrupt-image error (which parseFile
\* catches); it faults only when it was given no luma buffer.
C15_HuffmanStageTerminates ==
  /\ <>ReadEnded
  /\ [](readBuf.pc = "crash" => ~readBuf.have[1])

\* a row cut inside its sequence ends in the end-of-file error
C15_Witness ==
  /\ readBuf # NULL /\ readBuf.pc = "eof"
  /\ readBuf.sceneSelect = k4Base
  /\ readBuf.i > 0 /\ readBuf.i < readBuf.length

\* C19 as stated: syncHuffman advances one bit at a time and returns at the
\* first position at which the top 20 bits of the accumulator are 0xFFFFE.
C19_SyncAsStated ==
  [][ SyncHuffmanStep =>
        /\ readBuf'.b.consumed - readBuf.b.consumed \in {0, 1}
        /\ SyncReturns => ( /\ \A i \in 1 .. 19 : readBuf'.b.sum[i] = 1
                            /\ readBuf'.b.sum[20] = 0 )
    ]_vars

\* C19 amended: syncHuffman advances eight bits at a time until bits 12 to
\* 23 of the accumulator are all ones, then one bit at a time, and returns
\* at the first position of that walk at which the top 24 bits of the
\* accumulator are 0xFFFFFE (23 ones and a zero).
C19_Sync ==
  [][ SyncHuffmanStep =>
        /\ readBuf.pc = "sync1" =>
             /\ readBuf'.b.consumed - readBuf.b.consumed \in {0, 8}
             /\ (readBuf'.pc = "sync2") = (\A i \in 9 .. 20 : readBuf.b.sum[i] = 1)
        /\ readBuf.pc = "sync2" =>
             /\ readBuf'.b.consumed - readBuf.b.consumed \in {0, 1}
             /\ SyncReturns = ( /\ \A i \in 1 .. 23 : readBuf.b.sum[i] = 1
                                /\ readBuf.b.sum[24] = 0 )
    ]_vars

\* syncHuffman has returned at a marker that does not start at a byte
C19_Witness ==
  /\ readBuf # NULL /\ readBuf.pc = "header"
  /\ readBuf.b.consumed % 8 # 0
  /\ readBuf.b.consumed > readBuf.syncStart

\* C20: syncHuffman returns at the earliest position at or after its start
\* at which the next 24 bits of the stream are 0xFFFFFE; started at such a
\* position it consumes nothing.
C20_SyncFindsEarliestMarker ==
  [][ SyncReturns =>
        /\ MarkerAt(readBuf.file, readBuf'.b.consumed)
        /\ \A k \in readBuf.syncStart .. readBuf'.b.consumed - 1 : ~MarkerAt(readBuf.file, k)
    ]_vars

\* the rows of band thread of a plane of the given height
BandRows(height, thread) == bandStartRow(height, thread) .. bandEndRow(height, thread) - 1

\* the heights the two parallel phases split: the planes of every resolution
\* level and the planes of the component model
BandHeights ==
  { PCDLumaHeight[s] : s \in 1 .. 6 } \cup { PCDChromaHeight[s] : s \in 1 .. 6 }
  \cup { ImageHeight, ImageHeight \div 2 }

\* the bands are pairwise disjoint and cover every row
BandsPartition(height) ==
  /\ \A t, u \in 0 .. kNumThreads - 1 :
       t # u => BandRows(height, t) \cap BandRows(height, u) = {}
  /\ UNION { BandRows(height, t) : t \in 0 .. kNumThreads - 1 } = 0 .. height - 1

\* what the worker of band thread writes in convertToRGB and in
\* upResInterpolate on a plane of the given size
ConvertBand(rotate, thread) ==
  convertWrites(rotate, ImageWidth, ImageHeight, 1,
                bandStartRow(ImageHeight, thread), bandEndRow(ImageHeight, thread))
UpResBand(width, height, thread) ==
  upResWrites(width, bandStartRow(height, thread), bandEndRow(height, thread))

\* the workers of upResBuffer on a plane: each writes rows of its own band
\* only, and nothing another worker writes or reads
UpResBandsDisjoint(width, height, hasDeltas) ==
  \A t \in 0 .. kNumThreads - 1 :
    /\ \A i \in UpResBand(width, height, t) : (i \div width) \in BandRows(height, t)
    /\ \A u \in 0 .. kNumThreads - 1 :
         t # u =>
           UpResBand(width, height, t)
             \cap ( UpResBand(width, height, u)
                    \cup upResDestReads(width, bandStartRow(height, u),
                                        bandEndRow(height, u), hasDeltas) ) = {}

\* the workers of convertToRGB, for one rotation: they write disjoint sets
\* of destination indices, one index per source pixel, and every index
ConvertBandsDisjoint(rotate) ==
  /\ \A t, u \in 0 .. kNumThreads - 1 :
       t # u => ConvertBand(rotate, t) \cap ConvertBand(rotate, u) = {}
  /\ \A t \in 0 .. kNumThreads - 1 :
       Cardinality(ConvertBand(rotate, t)) = ImageWidth * Cardinality(BandRows(ImageHeight, t))
  /\ UNION { ConvertBand(rotate, t) : t \in 0 .. kNumThreads - 1 }
       = 0 .. ImageWidth * ImageHeight - 1

\* the two phases on the planes of the component model and the band split
\* at every height
BandsPartitionEveryHeight == \A h \in BandHeights : BandsPartition(h)
UpResLumaBandsDisjoint == UpResBandsDisjoint(ImageWidth, ImageHeight, TRUE)
UpResChromaBandsDisjoint == UpResBandsDisjoint(ImageWidth \div 2, ImageHeight \div 2, FALSE)
ConvertBandsDisjointByRotation == [rotate \in 0 .. 3 |-> ConvertBandsDisjoint(rotate)]

\* C16: the bands of both parallel phases partition the rows at every
\* resolution level; the workers of populateBuffers write disjoint sets of
\* destination indices and together each output pixel exactly once, for
\* the rotation of the image; the workers of upResBuffer write only rows of
\* their own band and nothing that another worker reads or writes.
C16_BandsAreDisjoint ==
  image # NULL =>
    /\ BandsPartitionEveryHeight
    /\ UpResLumaBandsDisjoint
    /\ UpResChromaBandsDisjoint
    /\ image.out # NULL =>
         /\ ConvertBandsDisjointByRotation[image.imageRotate]
         /\ \A j \in 1 .. ImageWidth * ImageHeight : image.out[j] # Unwritten

\* an image populated with a quarter turn after an interpolating postParse
C16_Witness ==
  /\ image # NULL /\ image.out # NULL
  /\ image.imageRotate = 1
  /\ image.upResMethod = kUpResIterpolate
  /\ image.luma # image.parsed.luma

\* C17: when upResBuffer or populateBuffers has returned (and the buffers
\* the workers used are freed), no worker is running: every band whose
\* thread was started has finished and was joined exactly once, every band
\* whose thread could not be started was done inline and never joined, and
\* the last band was done inline.
C17_JoinBarrier ==
  (workers # NULL /\ workers.freed) =>
    /\ \A t \in 0 .. kNumThreads - 2 :
         IF workers.started[t]
         THEN workers.at[t] = "joined" /\ workers.joins[t] = 1
         ELSE workers.at[t] = "inline" /\ workers.joins[t] = 0
    /\ workers.at[kNumThreads - 1] = "inline"
    /\ ~workers.started[kNumThreads - 1] /\ workers.joins[kNumThreads - 1] = 0

\* a call has returned that started some threads and failed to start others
C17_Witness ==
  /\ workers # NULL /\ workers.pc = "returned"
  /\ workers.started[0] /\ ~workers.started[1] /\ workers.started[kNumThreads - 2]

\* PCDDecodeHuffman meets an error slot in this step
HitsErrorSlot ==
  /\ DecodeHuffmanStep
  /\ readBuf.i < readBuf.length
  /\ huffSlot(ModelTable, TopCode(readBuf.b.sum)).len = kHuffmanErrorLen

\* C21 as stated: on the error sentinel PCDDecodeHuffman raises no error,
\* zeroes the bytes from the failing position to the end of the sequence and
\* no other byte, and goes on to resynchronise.
C21_ZeroesRemainderAsStated ==
  [][ HitsErrorSlot =>
        /\ readBuf'.pc = "sync1" /\ readBuf'.ret = "finish"
        /\ readBuf'.wrote = [lo |-> readBuf.dest + readBuf.i,
                             hi |-> readBuf.dest + readBuf.length, zero |-> TRUE]
    ]_vars

\* C21 amended: on the error sentinel PCDDecodeHuffman raises no error of
\* its own, zeroes all length bytes of the sequence from its first byte
\* (the symbols already decoded included) and no other byte, consumes
\* nothing, and goes on to syncHuffman, after which the sequence ends.
C21_ZeroesSequence ==
  [][ HitsErrorSlot =>
        /\ readBuf'.pc = "sync1" /\ readBuf'.ret = "finish"
        /\ readBuf'.b = readBuf.b
        /\ readBuf'.wrote = [lo |-> readBuf.dest, hi |-> readBuf.dest + readBuf.length,
                             zero |-> TRUE]
    ]_vars

\* a sequence that failed after its first symbol has been zeroed and the
\* reader has resynchronised
C21_Witness ==
  /\ readBuf # NULL /\ readBuf.pc = "finish"
  /\ readBuf.wrote # NULL /\ readBuf.wrote.zero
  /\ readBuf.i > 0 /\ readBuf.i < readBuf.length

\* the entries of the table being built whose code (the top len bits of the
\* code word) is the top len bits of slot c
codeMatches(entries, c) ==
  { k \in 1 .. Len(entries) :
      \A i \in 1 .. entries[k].len : c[i] = entries[k].codeWord[i] }

\* C22: when readHuffTable has built a table from entries of at most 16 bits,
\* every slot whose top bits are the code of some entry holds the symbol and
\* the length of the last such entry, every other slot holds (0x7F, 31); a
\* build that has met an entry of more than 16 bits has thrown
C22_TableAsStated ==
  (huff # NULL /\ huff.pc = "built") =>
    /\ \A k \in 1 .. Len(huff.entries) : huff.entries[k].len <= 16
    /\ \A c \in Codes :
         LET hits == codeMatches(huff.entries, c)
         IN  IF hits = {} THEN huff.table[c] = errorSlot
             ELSE LET k == CHOOSE k \in hits : \A j \in hits : j <= k
                  IN  huff.table[c] = [len |-> huff.entries[k].len,
                                       key |-> huff.entries[k].key]

\* bit p (0 the least significant) of a 32-bit accumulator
AccBit(sum, p) == sum[32 - p]

\* bits lo .. hi of an accumulator as a number, bit lo the least significant
RECURSIVE AccBits(_, _, _)
AccBits(sum, lo, hi) ==
  IF lo > hi THEN 0 ELSE AccBit(sum, lo) + 2 * AccBits(sum, lo + 1, hi)

\* readPCDDeltas of a 4Base or 16Base level has just read a sequence header:
\* the accumulator is the one the plane and the row were taken from
HeaderRead ==
  /\ readBuf.pc = "skip" /\ readBuf.count = 0
  /\ readBuf.sceneSelect \in {k4Base, k16Base}

\* C23 as stated: the plane of a 4Base or 16Base sequence header is
\* (acc >> 22) & 0x6, one of 0, 2, 4 and 6, and the row is (acc >> 9) & 0x1FFF
C23_HeaderAsStated ==
  HeaderRead =>
    /\ readBuf.plane = 2 * AccBit(readBuf.b.sum, 23) + 4 * AccBit(readBuf.b.sum, 24)
    /\ readBuf.plane \in {0, 2, 4, 6}
    /\ readBuf.row = AccBits(readBuf.b.sum, 9, 21)

\* C23: the plane of a 4Base or 16Base sequence header is (acc >> 22) & 0x3,
\* one of 0, 1, 2 and 3, and the row is (acc >> 9) & 0x1FFF
C23_Header ==
  HeaderRead =>
    /\ readBuf.plane = AccBits(readBuf.b.sum, 22, 23)
    /\ readBuf.plane \in 0 .. 3
    /\ readBuf.row = AccBits(readBuf.b.sum, 9, 21)

\* a 16Base header with plane 3 and a row above 0 has been read
C23_Witness ==
  HeaderRead /\ readBuf.sceneSelect = k16Base /\ readBuf.plane = 3 /\ readBuf.row > 0

\* readPCDDeltas has consumed a whole sequence header and is at its test of
\* the row, with a plane tag the switch does not know
UnknownTagConsumed ==
  /\ readBuf.pc = "skip"
  /\ readBuf.count = HuffmanHeaderSize[readBuf.sceneSelect + 1]
  /\ readBuf.plane \notin {0, 2, 3, 4}

\* C24 as stated: a consumed sequence header with a plane tag other than 0,
\* 2, 3 or 4 ends the level with "Corrupt Image", whatever its row is
C24_UnknownTagAsStated ==
  [][UnknownTagConsumed => readBuf'.pc = "corrupt"]_vars

\* C24: a consumed sequence header with a plane tag other than 0, 2, 3 or 4
\* ends the level with "Corrupt Image" when its row lies in the level; when
\* the row is at or beyond the luma height the sequence is skipped, its tag
\* unread, and counts as processed
C24_UnknownTag ==
  [][UnknownTagConsumed =>
       IF readBuf.row < PCDLumaHeight[readBuf.sceneSelect + 1]
       THEN readBuf'.pc = "corrupt"
       ELSE readBuf'.pc = "finish" /\ readBuf'.planeTrack = readBuf.planeTrack
            /\ readBuf'.b = readBuf.b]_vars

\* a header with an unknown tag and a row beyond the level was skipped and
\* the call went on to return
C24_Witness ==
  /\ readBuf.pc = "done" /\ readBuf.plane = 1
  /\ readBuf.row >= PCDLumaHeight[readBuf.sceneSelect + 1]

\* the maximal runs of consecutive pointers of one file, from entry j on:
\* for each its file, the offset of its first pointer and its length
RECURSIVE RunsFrom(_, _)
RunsFrom(pointers, j) ==
  IF j > Len(pointers) THEN << >>
  ELSE LET same(k) == \A m \in j .. k : pointers[m].fno = pointers[j].fno
           last == CHOOSE k \in j .. Len(pointers) :
                     same(k) /\ (k = Len(pointers) \/ ~same(k + 1))
       IN  << [ file |-> pointers[j].fno, startPoint |-> pointers[j].offset,
                sequencesToProcess |-> last - j + 1 ] >>
           \o RunsFrom(pointers, last + 1)

\* the sum of the sequence budgets of the calls
RECURSIVE BudgetSum(_)
BudgetSum(calls) ==
  IF calls = << >> THEN 0
  ELSE Head(calls).sequencesToProcess + BudgetSum(Tail(calls))

\* C25: when the walk over the pointer array of a layer has ended, the delta
\* decoder has been called once per maximal run of pointers of one file, on
\* that file, from the offset of the run's first pointer, with the length of
\* the run as its sequence budget; the budgets sum to the number of sequences
C25_OneCallPerRun ==
  (walk # NULL /\ walk.pc = "end") =>
    /\ walk.calls = RunsFrom(walk.pointers, 1)
    /\ BudgetSum(walk.calls) = Len(walk.pointers)

\* the bilinear interpolation of target pixel (x, y) from the half-size
\* plane s, before any delta: c + 1 and r + 1 are held at the last source
\* column and row
BilinearAt(s, width, height, x, y) ==
  LET c  == x \div 2
      r  == y \div 2
      c1 == IF c + 1 > (width \div 2) - 1 THEN (width \div 2) - 1 ELSE c + 1
      r1 == IF r + 1 > (height \div 2) - 1 THEN (height \div 2) - 1 ELSE r + 1
      src(a, b) == s[a + b * (width \div 2) + 1]
  IN  IF x % 2 = 0 /\ y % 2 = 0 THEN src(c, r)
      ELSE IF y % 2 = 0 THEN (src(c, r) + src(c1, r) + 1) \div 2
      ELSE IF x % 2 = 0 THEN (src(c, r) + src(c, r1) + 1) \div 2
      ELSE (src(c, r) + src(c1, r) + src(c, r1) + src(c1, r1) + 2) \div 4

\* the interpolated pixel with the delta d stored at its position added as
\* a signed byte
WithDelta(v, d) == v + (IF d > 127 THEN d - 256 ELSE d)

\* the plane the claim describes: every target pixel interpolated and, with
\* deltas, the delta found at its position in d added and the sum held in
\* 0 .. 255
BilinearPlane(s, d, width, height, hasDeltas) ==
  [ i \in 1 .. width * height |->
      LET v == BilinearAt(s, width, height, (i - 1) % width, (i - 1) \div width)
          t == IF hasDeltas THEN WithDelta(v, d[i]) ELSE v
      IN  IF t < 0 THEN 0 ELSE IF t > 255 THEN 255 ELSE t ]

\* postParse assembles the level of the component model with the bilinear
\* up-resolver
BilinearStep ==
  /\ image.deltas # NULL /\ image'.deltas = NULL
  /\ image.upResMethod >= kUpResIterpolate

\* C26: the bilinear up-resolver gives the four target pixels of every pixel
\* of the half-size plane the values (2c,2r) = s[c,r], (2c+1,2r) =
\* (s[c,r]+s[c+1,r]+1)>>1, (2c,2r+1) = (s[c,r]+s[c,r+1]+1)>>1 and (2c+1,2r+1)
\* = (s[c,r]+s[c+1,r]+s[c,r+1]+s[c+1,r+1]+2)>>2, c+1 and r+1 held at the last
\* column and row; with deltas, the delta stored at the target position
\* before the call is added as a signed byte and the sum held in 0 .. 255
C26_Bilinear ==
  [][BilinearStep =>
       /\ image'.luma = BilinearPlane(image.luma, image.deltas,
                                      ImageWidth, ImageHeight, TRUE)
       /\ image'.chroma1 = BilinearPlane(image.chroma1, << >>, ImageWidth \div 2,
                                         ImageHeight \div 2, FALSE)
       /\ image'.chroma2 = BilinearPlane(image.chroma2, << >>, ImageWidth \div 2,
                                         ImageHeight \div 2, FALSE)]_vars

\* a level was assembled by the bilinear up-resolver in which one sum with a
\* delta lay above 255 and one below 0, and a diagonal pixel had four
\* different neighbours
C26_Witness ==
  /\ image # NULL /\ image.postParsed
  /\ image.luma = BilinearPlane(image.parsed.luma, image.parsed.deltas,
                                ImageWidth, ImageHeight, TRUE)
  /\ \E i, j \in 1 .. ImageWidth * ImageHeight :
       LET at(k) == WithDelta(BilinearAt(image.parsed.luma, ImageWidth, ImageHeight,
                                         (k - 1) % ImageWidth, (k - 1) \div ImageWidth),
                              image.parsed.deltas[k])
       IN  at(i) > 255 /\ at(j) < 0
  /\ \E c \in 0 .. (ImageWidth \div 2) - 2, r \in 0 .. (ImageHeight \div 2) - 2 :
       LET src(a, b) == image.parsed.luma[a + b * (ImageWidth \div 2) + 1]
       IN  Cardinality({src(c, r), src(c + 1, r), src(c, r + 1), src(c + 1, r + 1)}) = 4

\* C27: whenever parseFile has returned true, allocation failures included,
\* the luma delta slot of a level is set exactly for the levels 4Base up to
\* sceneNumber; and when postParse has then returned, the luma plane has the
\* dimensions of sceneNumber, both chroma planes half of them, and all nine
\* delta slots are NULL
C27_DeltasMatchLevel ==
  /\ (lastCall.op = "parseFile" /\ lastCall.ret = "true") =>
       \A s \in k4Base .. k64Base :
         (deltas[s - k4Base + 1][1] # NULL) <=> (s <= sceneNumber)
  /\ (lastCall.op = "postParse" /\ lastCall.ret = "true" /\ pcdFileHeader # NULL) =>
       /\ LumaAtLevel(sceneNumber)
       /\ chroma1 # NULL /\ chroma2 # NULL
       /\ chroma1.w = PCDLumaWidth[sceneNumber + 1] \div 2
       /\ chroma1.h = PCDLumaHeight[sceneNumber + 1] \div 2
       /\ chroma2.w = chroma1.w /\ chroma2.h = chroma1.h
       /\ deltas = NoDeltas

\* the size of the delta buffer of plane k (0 luma, 1 and 2 chroma) of a
\* level, as parseFile and parseICFile allocate it
DeltaBufferSize(sceneSelect, k) ==
  IF k = 0 THEN PCDLumaWidth[sceneSelect + 1] * PCDLumaHeight[sceneSelect + 1]
  ELSE PCDChromaWidth[sceneSelect + 1] * PCDChromaHeight[sceneSelect + 1]

\* C28: every byte the delta decoder writes lies inside the delta buffer of
\* the plane its sequence header addresses, at 4Base, 16Base and 64Base,
\* whatever the header and the layer description hold
C28_WritesInBounds ==
  (readBuf # NULL /\ readBuf.wrote # NULL) =>
    /\ readBuf.wrote.lo >= 0
    /\ readBuf.wrote.hi <= DeltaBufferSize(readBuf.sceneSelect, readBuf.table)

\* the twelve pointers of the instance
OwnedSlots ==
  { lumaSlot, chroma1Slot, chroma2Slot }
  \cup { deltaSlot(i, j) : i \in 0 .. 2, j \in 0 .. 2 }

\* C29: between public calls every plane pointer and every delta slot is
\* NULL or the only pointer to a buffer that is allocated; no buffer was
\* freed twice, and none is allocated that no pointer holds, so pcdFreeAll
\* and the destructor free every buffer exactly once
C29_SoleOwners ==
  (heap # NULL) =>
    /\ ~heap.doubleFree
    /\ \A s \in OwnedSlots :
         slotValue(heap, s) # 0 =>
           /\ slotValue(heap, s) \in heap.live
           /\ \A t \in OwnedSlots \ {s} : slotValue(heap, t) # slotValue(heap, s)
    /\ \A p \in heap.live : \E s \in OwnedSlots : slotValue(heap, s) = p
    /\ heap.pc = "destroyed" => heap.live = {}

\* postParse has assembled a 64Base image: the luma pointer is that of a
\* delta buffer swapped in, the nine delta slots are NULL
C29_Witness ==
  /\ heap # NULL /\ heap.last = "postParse" /\ heap.sceneNumber = k64Base
  /\ heap.luma > 3 /\ heap.chroma1 > 3
  /\ \A i, j \in 0 .. 2 : slotValue(heap, deltaSlot(i, j)) = 0

\* C30: when parseFile returns, true or false, every file the decoder has
\* opened during the call (the primary file, the companion file, the
\* extension files) is closed
C30_FilesClosed ==
  (lastCall.op = "parseFile" /\ lastCall.ret \in {"true", "false"}) =>
    lastCall.obs.open = {}
====
